---- MODULE Spec2Model ----
(***************************************************************************)
(* State-machine model of the storefront's data-access hooks and the admin *)
(* payment-method view: useOrders, usePaymentMethods, useMemberAuth,       *)
(* useMembers, PaymentMethodManager and MenuItemCard's price selection.    *)
(* The hosted backend is modelled as tables (functions from row key to     *)
(* row); an awaited backend call splits a handler into the step that       *)
(* issues the call and the step that runs its continuation.                *)
(***************************************************************************)
EXTENDS Integers, Sequences, FiniteSets, TLC

(***************************************************************************)
(* Bounds of the model.                                                    *)
(***************************************************************************)
\* members rows the table may hold
MaxMembers == 3
\* payment_methods rows the backend creates during a run
MaxMethods == 2
\* number of order rows the backend creates during a run
MaxOrders == 3
\* the "most recent 100" of useOrders.ts, scaled down to a size TLC can fill
RecentLimit == 2
\* realtime payloads waiting for delivery to the subscribed channel
MaxEvents == 1
\* awaited backend calls of the hook in flight at the same time
MaxInflight == 1
\* orders the checkout places during a run
MaxPlaced == 1
\* clipboard writes of the checkout awaiting their promise
MaxCopies == 2
MaxItems == 2
MaxFields == 2

(***************************************************************************)
(* Values.                                                                 *)
(***************************************************************************)
NotLoaded == "not_loaded"
\* `since` is optional; an absent (or empty) value is falsy at line 25/33
NoSince == 0

OrderStatuses == {"pending", "processing", "approved", "rejected"}
\* what callers put where an OrderStatus is expected: a value of the enum
\* and one outside it, which TypeScript's types do not exclude at run time
CallerStatuses == {"approved", "cancelled"}
\* the order the admin changes the status of
UpdateIds == {2}
OrderOptions == {"order_via_messenger", "place_order"}
\* the `limit` arguments tried: the default and one above it
Limits == {RecentLimit, RecentLimit + 1}
\* the `since` arguments tried: absent, or the created_at of the oldest row
Sinces == {NoSince, 1}
\* rows in the orders table when the hook mounts
InitialOrders == {2}

\* admin group names, in the order of .order('admin_name', ascending)
AdminNameOrder == <<"A", "B">>
AdminNames == {AdminNameOrder[i] : i \in 1..Len(AdminNameOrder)}
\* admin_name of a method without a group (null and '' are both falsy)
NoAdmin == ""
\* editingMethod = null
NoMethod == 0
\* payment method names typed into the form, as strings of characters
NameInputs == {<<"G">>, <<" ", "c">>}
\* options picked in the Admin Name select of the form
SelectedGroups == {"A"}
\* ids typed into the Method ID input
IdInputs == {<<"c">>}
LowerChars == {"g", "c"}
UpperChars == {"G"}
SpaceChars == {" "}

\* mounted components that call useMemberAuth in one window
Instances == {1, 2}
\* the instance behind the login form and the logout button
LoginInstances == {1}
Emails == {"a@x", "b@x"}
Usernames == {"ann", "bob"}
Passwords == {"p", "q"}
\* what the registration form submits as password
RegisterPasswords == {"q"}
MemberStatuses == {"active", "inactive"}
\* members the admin edits
EditedMembers == {1}
\* localStorage.getItem('member_id') === null
NoMember == 0
\* currentMember === null, and the data of a query that returns no row
NullMember == [id |-> NoMember]
NoError == ""
\* the useMemberAuth instance inside the MenuItemCard
CardInstance == 2
\* a number-valued field that is undefined, a key that a record lacks
Undefined == -1
\* variation.price, in pesos
BasePrices == {4, 8}
ResellerPrices == {Undefined, 3}
MemberPrices == {Undefined, 2}
\* member_discounts.selling_price
SellingPrices == {0, 1}
\* item.discountPercentage in hundredths: 25 stands for 0.25
DiscountPercentages == {Undefined, 25}
UserTypes == {"end_user", "reseller"}
\* ids of item.variations
VariationIds == {"v1"}
\* getDiscountedPriceSync called without a variationId
NoVariation == ""
NotShown == [price |-> Undefined]

\* admin groups switched on and off while a customer checks out
ToggledGroups == {"A"}
\* paymentMethod === null
NoSelection == <<>>
\* receiptImageUrl === null
NoReceipt == ""
\* URLs uploadImage returns
ReceiptUrls == {"r1"}
\* orderId === null, no current_order_id in localStorage
NoOrder == 0
\* existingOrderStatus === null
NoStatus == ""

\* menu item ids, custom field keys and typed texts, as strings of characters
GameM == [id |-> [menu |-> <<"m">>, cart |-> <<"1">>], name |-> "Mobile",
          customFields |-> <<[key |-> <<"u">>, label |-> "UID"],
                             [key |-> <<"s">>, label |-> "Server"]>>]
GameMOther == [GameM EXCEPT !.id.cart = <<"2">>]
GameC == [id |-> [menu |-> <<"c">>, cart |-> <<"1">>], name |-> "Cards",
          customFields |-> <<[key |-> <<"u">>, label |-> "UID"]>>]
Plain == [id |-> [menu |-> <<"p">>, cart |-> <<>>], name |-> "Plain", customFields |-> <<>>]
\* the carts the customer checks out with
Carts == {<<Plain>>, <<GameM>>, <<GameM, GameMOther, GameC>>, <<Plain, GameC>>}
\* texts typed into an input
Texts == {"", "7", "9"}
NotGenerated == <<[kind |-> "none"]>>

VARIABLES
  \* ---- orders: backend table and one useOrders instance
  dbOrders,        \* orders table: id -> status (created_at grows with id)
  nextOrderId,     \* next id the backend hands out
  orders,          \* useState<Order[]>: the list held by the hook
  ordersMounted,   \* the component using the hook is mounted
  siteSettings,    \* siteSettings?.order_option, NotLoaded before the load
  liveChannels,    \* channels of this instance the client is subscribed to
  events,          \* payloads the backend has pushed, not yet delivered
  fetching,        \* fetchOrders calls awaiting their query
  creating,        \* createOrder call awaiting its insert
  delivered,       \* the payload the callback ran for last, and the list before it
  \* ---- payment methods: backend tables, usePaymentMethods, PaymentMethodManager
  dbGroups,           \* admin_payment_groups: admin_name -> is_active
  dbMethods,          \* payment_methods: uuid_id -> row
  nextUuid,           \* next uuid_id the backend hands out
  paymentMethods,     \* usePaymentMethods: useState<PaymentMethod[]>
  adminGroups,        \* usePaymentMethods: useState<AdminPaymentGroup[]>
  allPaymentMethods,  \* PaymentMethodManager: list behind the admin view
  currentView,        \* 'list' | 'add' | 'edit'
  editingMethod,      \* uuid_id of the method being edited, NoMethod for null
  formData,           \* the add/edit form
  deleteTarget,       \* what the open delete modal is about
  payLast,            \* the handler that ran last and how it ended
  \* ---- members: backend table, localStorage, useMemberAuth instances
  dbMembers,          \* members table: id -> row
  nextMemberId,       \* next id the backend hands out
  storedMemberId,     \* localStorage 'member_id' of the window
  currentMember,      \* per instance: useState<Member | null>
  checking,           \* per instance: member ids read by checkAuth calls awaiting their query
  registering,        \* per instance: the register call in progress
  memLast,            \* the auth call that returned last and what it returned
  adminChanged,       \* ids of the members an updateMember call has changed
  \* ---- prices: one MenuItemCard
  itemVariations,     \* item.variations: id -> reseller_price, member_price
  itemDiscount,       \* item.isOnDiscount, item.discountPercentage
  dbDiscounts,        \* member_discounts rows of this item
  memberDiscounts,    \* useState<Record<string, number>>: variation id -> selling_price
  fetchedFor,         \* dependencies the fetchDiscounts effect last ran with
  shown,              \* the last price computed, with what it was computed from
  \* ---- checkout: one Checkout component
  paymentMethod,      \* useState<PaymentMethod | null>: id of the selected method
  receiptImageUrl,    \* useState<string | null>
  uploadingReceipt,   \* useImageUpload().uploading
  receiptError,       \* useState<string | null>, NoError for null
  hasCopiedMessage,   \* useState(false)
  copying,            \* clipboard writes of handleCopyMessage awaiting their promise
  isPlacingOrder,     \* useState(false)
  placing,            \* createOrder calls of handlePlaceOrderDirect in flight
  dbOrderRows,        \* orders table as the checkout writes and reads it: id -> row
  storedOrderId,      \* localStorage 'current_order_id'
  orderId,            \* useState<string | null>
  existingOrderStatus,\* useState<OrderStatus | null>
  isOrderModalOpen,   \* useState(false)
  checkoutLast,       \* the checkout handler that ran last and what it did
  \* ---- the details step of Checkout and the order message
  cartItems,          \* the cartItems prop
  customFieldValues,  \* useState<Record<string, string>>: input key -> text
  message             \* the lines generateOrderMessage returned last

ordersVars == <<dbOrders, nextOrderId, orders, ordersMounted, siteSettings,
                liveChannels, events, fetching, creating, delivered>>

payVars == <<dbGroups, dbMethods, nextUuid, paymentMethods, adminGroups,
             allPaymentMethods, currentView, editingMethod, formData,
             deleteTarget, payLast>>

memberVars == <<dbMembers, nextMemberId, storedMemberId, currentMember, checking,
                registering, memLast, adminChanged>>

priceVars == <<itemVariations, itemDiscount, dbDiscounts, memberDiscounts,
               fetchedFor, shown>>

checkoutVars == <<paymentMethod, receiptImageUrl, uploadingReceipt, receiptError,
                  hasCopiedMessage, copying, isPlacingOrder, placing, dbOrderRows,
                  storedOrderId, orderId, existingOrderStatus, isOrderModalOpen,
                  checkoutLast>>

detailsVars == <<cartItems, customFieldValues, message>>

vars == <<ordersVars, payVars, memberVars, priceVars, checkoutVars, detailsVars>>

\* what the handlers of useOrders leave alone
outsideOrders == <<payVars, memberVars, priceVars, checkoutVars, detailsVars>>

\* what the handlers of the payment-method view leave alone
outsidePay == <<ordersVars, memberVars, priceVars, checkoutVars, detailsVars>>

\* what the handlers of useMemberAuth and useMembers leave alone
outsideMembers == <<ordersVars, payVars, priceVars, checkoutVars, detailsVars>>

\* what the MenuItemCard leaves alone
outsidePrice == <<ordersVars, payVars, memberVars, checkoutVars, detailsVars>>

\* what the Checkout component leaves alone
outsideCheckout == <<ordersVars, payVars, memberVars, priceVars, detailsVars>>

\* what the details step of Checkout leaves alone
outsideDetails == <<ordersVars, payVars, memberVars, priceVars, checkoutVars>>

(***************************************************************************)
(* Helpers.                                                                *)
(***************************************************************************)
Min(a, b) == IF a < b THEN a ELSE b

SetMax(S) == CHOOSE m \in S : \A x \in S : x <= m

\* Array.prototype.slice(0, n)
Slice(s, n) == SubSeq(s, 1, Min(n, Len(s)))

Ids(s) == {s[i].id : i \in 1..Len(s)}

Without(f, k) == [x \in DOMAIN f \ {k} |-> f[x]]

(***************************************************************************)
(* useOrders                                                               *)
(***************************************************************************)
\* line 8: siteSettings?.order_option || 'order_via_messenger'
orderOption == IF siteSettings = NotLoaded THEN "order_via_messenger" ELSE siteSettings

\* CHECK (status IN (...)) of the orders table
StatusCheck(s) == s \in OrderStatuses

OrderRow(id) == [id |-> id, status |-> dbOrders[id]]

RECURSIVE NewestFirst(_)
\* .order('created_at', { ascending: false })
NewestFirst(S) ==
  IF S = {} THEN <<>>
  ELSE LET m == SetMax(S) IN <<OrderRow(m)>> \o NewestFirst(S \ {m})

\* the query of fetchOrders: order, limit, optional gt('created_at', since)
QueryOrders(limit, since) ==
  Slice(NewestFirst({id \in DOMAIN dbOrders : since = NoSince \/ id > since}), limit)

\* index === self.findIndex(o => o.id === order.id)
FirstIndexOf(s, id) == CHOOSE i \in 1..Len(s) :
                          s[i].id = id /\ \A j \in 1..(i - 1) : s[j].id # id

RECURSIVE KeepFirst(_, _)
KeepFirst(s, i) ==
  IF i > Len(s) THEN <<>>
  ELSE (IF i = FirstIndexOf(s, s[i].id) THEN <<s[i]>> ELSE <<>>) \o KeepFirst(s, i + 1)

\* combined.filter(...) of lines 38-40
Unique(s) == KeepFirst(s, 1)

\* setOrders updater of fetchOrders, lines 33-47
MergeFetched(prev, data, limit, since) ==
  IF since # NoSince /\ Len(data) > 0
  THEN Slice(Unique(data \o prev), limit)
  ELSE data

\* setOrders updater of createOrder, lines 98-102
PrependCreated(prev, row) == Slice(<<row>> \o prev, RecentLimit)

\* delivered before the callback has run, and after any other handler
NoPayload == [payload |-> [type |-> "none"], prev |-> <<>>]

\* a plausible slip: the INSERT branch does not look for the id in the list
MergeInsertAlways(prev, row) == Slice(<<row>> \o prev, RecentLimit)

\* setOrders updater of the INSERT branch, lines 164-167
MergeInsert(prev, row) ==
  IF \E i \in 1..Len(prev) : prev[i].id = row.id THEN prev
  ELSE Slice(<<row>> \o prev, RecentLimit)

\* prev.map(...) of lines 132-136 and 170-172
MapStatus(prev, id, status) ==
  [i \in 1..Len(prev) |-> IF prev[i].id = id THEN [prev[i] EXCEPT !.status = status]
                          ELSE prev[i]]

\* prev.filter(order => order.id !== id), line 174
RemoveId(prev, id) == SelectSeq(prev, LAMBDA o : o.id # id)

\* postgres_changes reach the client only through a subscribed channel
Push(payload) == IF liveChannels > 0 THEN Append(events, payload) ELSE events

InFlight == Cardinality(fetching) + Cardinality(creating)

CanPush == liveChannels = 0 \/ Len(events) < MaxEvents

\* channels after the effect of lines 149-183 has run for a render:
\* the cleanup of the previous run removes its channel, the new run subscribes
\* only for 'place_order'
\* a plausible slip: the guard of line 150 is missing
EffectChannelsUnguarded(option) == 1

EffectChannels(option) == IF option = "place_order" THEN 1 ELSE 0

OrdersInit ==
  /\ \E n \in InitialOrders :
       /\ dbOrders = [id \in 1..n |-> "pending"]
       /\ nextOrderId = n + 1
  /\ orders = <<>>
  /\ ordersMounted = TRUE
  /\ siteSettings = NotLoaded
  /\ liveChannels = EffectChannels("order_via_messenger")
  /\ events = <<>>
  /\ fetching = {}
  /\ creating = {}
  /\ delivered = NoPayload

\* useSiteSettings delivers or changes order_option; the hook re-renders and
\* the effect keyed on [orderOption] runs its cleanup and body
LoadSettings(v) ==
  /\ ordersMounted
  /\ siteSettings # v
  /\ siteSettings' = v
  /\ LET after == IF v = NotLoaded THEN "order_via_messenger" ELSE v IN
       IF after = orderOption
       THEN UNCHANGED <<liveChannels, events>>
       ELSE /\ liveChannels' = liveChannels - EffectChannels(orderOption)
                                + EffectChannels(after)
            /\ events' = <<>>
  /\ UNCHANGED <<dbOrders, nextOrderId, orders, ordersMounted, fetching, creating>>
  /\ delivered' = NoPayload
  /\ UNCHANGED outsideOrders

\* component unmount: effect cleanup; pending continuations no longer
\* reach the state of the instance (a later mount is a new instance, which
\* starts from OrdersInit)
Unmount ==
  /\ ordersMounted
  /\ ordersMounted' = FALSE
  /\ liveChannels' = liveChannels - EffectChannels(orderOption)
  /\ events' = <<>>
  /\ fetching' = {}
  /\ creating' = {}
  /\ UNCHANGED <<dbOrders, nextOrderId, orders, siteSettings>>
  /\ delivered' = NoPayload
  /\ UNCHANGED outsideOrders

\* fetchOrders up to the awaited query (lines 15-29)
FetchOrdersStart(limit, since, ok) ==
  /\ ordersMounted
  /\ InFlight < MaxInflight
  /\ fetching' = IF ok
                  THEN fetching \cup {[limit |-> limit, since |-> since,
                                       data |-> QueryOrders(limit, since)]}
                  ELSE fetching  \* fetchError: caught, the list is not touched
  /\ UNCHANGED <<dbOrders, nextOrderId, orders, ordersMounted, siteSettings,
                 liveChannels, events, creating>>
  /\ delivered' = NoPayload
  /\ UNCHANGED outsideOrders

\* fetchOrders after the query (lines 31-54)
FetchOrdersDone(req) ==
  /\ req \in fetching
  /\ fetching' = fetching \ {req}
  /\ orders' = MergeFetched(orders, req.data, req.limit, req.since)
  /\ UNCHANGED <<dbOrders, nextOrderId, ordersMounted, siteSettings,
                 liveChannels, events, creating>>
  /\ delivered' = NoPayload
  /\ UNCHANGED outsideOrders

\* a plausible slip: the caller's status is passed through to the insert
CreatedStatusFromCaller(callerStatus) == callerStatus

\* status column written by createOrder's insert (line 89)
CreatedStatus(callerStatus) == "pending"

\* createOrder up to the awaited insert (lines 76-92); `len` is orders.length
\* of the render whose closure runs
CreateOrderStart(callerStatus, ok) ==
  /\ ordersMounted
  /\ InFlight < MaxInflight
  /\ nextOrderId <= MaxOrders
  /\ CanPush
  /\ IF ok /\ StatusCheck(CreatedStatus(callerStatus))
     THEN /\ dbOrders' = dbOrders @@ (nextOrderId :> CreatedStatus(callerStatus))
          /\ nextOrderId' = nextOrderId + 1
          /\ events' = Push([type |-> "INSERT", id |-> nextOrderId,
                             status |-> CreatedStatus(callerStatus)])
          /\ creating' = {[len |-> Len(orders), asked |-> callerStatus,
                           data |-> [id |-> nextOrderId,
                                     status |-> CreatedStatus(callerStatus)]]}
     ELSE \* createError: caught, null is returned, the list is not touched
          UNCHANGED <<dbOrders, nextOrderId, events, creating>>
  /\ UNCHANGED <<orders, ordersMounted, siteSettings, liveChannels, fetching>>
  /\ delivered' = NoPayload
  /\ UNCHANGED outsideOrders

\* createOrder after the insert (lines 94-113)
CreateOrderDone(req) ==
  /\ req \in creating
  /\ creating' = {}
  /\ IF req.len > 0
     THEN /\ orders' = PrependCreated(orders, req.data)
          /\ UNCHANGED fetching
     ELSE \* await fetchOrders(100)
          /\ fetching' = fetching \cup
               {[limit |-> RecentLimit, since |-> NoSince,
                 data |-> QueryOrders(RecentLimit, NoSince)]}
          /\ UNCHANGED orders
  /\ UNCHANGED <<dbOrders, nextOrderId, ordersMounted, siteSettings,
                 liveChannels, events>>
  /\ delivered' = NoPayload
  /\ UNCHANGED outsideOrders

\* updateOrderStatus (lines 117-145): the update, then the map over the list
\* when the closure's orders.length is positive
UpdateOrderStatus(id, status) ==
  /\ ordersMounted
  /\ CanPush
  /\ IF StatusCheck(status)
     THEN /\ orders' = IF Len(orders) > 0 THEN MapStatus(orders, id, status) ELSE orders
          /\ IF id \in DOMAIN dbOrders
             THEN /\ dbOrders' = [dbOrders EXCEPT ![id] = status]
                  /\ events' = Push([type |-> "UPDATE", id |-> id, status |-> status])
             ELSE UNCHANGED <<dbOrders, events>>
     ELSE UNCHANGED <<dbOrders, events, orders>>
  /\ UNCHANGED <<nextOrderId, ordersMounted, siteSettings, liveChannels,
                 fetching, creating>>
  /\ delivered' = NoPayload
  /\ UNCHANGED outsideOrders

\* another browser places an order through the same createOrder
OtherClientCreateOrder ==
  /\ nextOrderId <= MaxOrders
  /\ CanPush
  /\ dbOrders' = dbOrders @@ (nextOrderId :> CreatedStatus("pending"))
  /\ nextOrderId' = nextOrderId + 1
  /\ events' = Push([type |-> "INSERT", id |-> nextOrderId,
                     status |-> CreatedStatus("pending")])
  /\ UNCHANGED <<orders, ordersMounted, siteSettings, liveChannels,
                 fetching, creating>>
  /\ delivered' = NoPayload
  /\ UNCHANGED outsideOrders

\* a row is deleted on the backend (the hook has no delete of its own)
BackendDeleteOrder(id) ==
  /\ id \in DOMAIN dbOrders
  /\ CanPush
  /\ dbOrders' = Without(dbOrders, id)
  /\ events' = Push([type |-> "DELETE", id |-> id, status |-> "pending"])
  /\ UNCHANGED <<nextOrderId, orders, ordersMounted, siteSettings, liveChannels,
                 fetching, creating>>
  /\ delivered' = NoPayload
  /\ UNCHANGED outsideOrders

\* the callback of lines 161-176
ApplyPayload(prev, p) ==
  IF p.type = "INSERT" THEN MergeInsert(prev, [id |-> p.id, status |-> p.status])
  ELSE IF p.type = "UPDATE" THEN MapStatus(prev, p.id, p.status)
  ELSE IF p.type = "DELETE" THEN RemoveId(prev, p.id)
  ELSE prev

\* the channel delivers the oldest pending payload to the callback
RealtimeEvent ==
  /\ liveChannels > 0
  /\ events # <<>>
  /\ orders' = ApplyPayload(orders, Head(events))
  /\ events' = Tail(events)
  /\ delivered' = [payload |-> Head(events), prev |-> orders]
  /\ UNCHANGED <<dbOrders, nextOrderId, ordersMounted, siteSettings,
                 liveChannels, fetching, creating>>
  /\ UNCHANGED outsideOrders

OrdersNext ==
  \/ \E v \in OrderOptions : LoadSettings(v)
  \/ Unmount
  \/ \E l \in Limits, s \in Sinces, ok \in BOOLEAN :
       FetchOrdersStart(l, s, ok)
  \/ \E req \in fetching : FetchOrdersDone(req)
  \/ \E cs \in CallerStatuses, ok \in BOOLEAN : CreateOrderStart(cs, ok)
  \/ \E req \in creating : CreateOrderDone(req)
  \/ \E id \in UpdateIds, s \in CallerStatuses : UpdateOrderStatus(id, s)
  \/ OtherClientCreateOrder
  \/ \E id \in 1..MaxOrders : BackendDeleteOrder(id)
  \/ RealtimeEvent

(***************************************************************************)
(* usePaymentMethods and PaymentMethodManager                              *)
(***************************************************************************)
\* String.prototype.toLowerCase on the characters used
ToLower(c) == IF c = "G" THEN "g" ELSE c

RECURSIVE CollapseRuns(_, _, _)
\* replace(/X+/g, '-') for a character class X: every maximal run of
\* characters of the class becomes one hyphen
CollapseRuns(s, class, inRun) ==
  IF s = <<>> THEN <<>>
  ELSE IF Head(s) \in class
       THEN (IF inRun THEN <<>> ELSE <<"-">>) \o CollapseRuns(Tail(s), class, TRUE)
       ELSE <<Head(s)>> \o CollapseRuns(Tail(s), class, FALSE)

RECURSIVE TrimStart(_)
TrimStart(s) == IF s # <<>> /\ Head(s) \in SpaceChars THEN TrimStart(Tail(s)) ELSE s

RECURSIVE TrimEnd(_)
TrimEnd(s) ==
  IF s # <<>> /\ s[Len(s)] \in SpaceChars THEN TrimEnd(SubSeq(s, 1, Len(s) - 1)) ELSE s

\* generateIdFromName, lines 244-251
generateIdFromName(name) ==
  LET lower == [i \in 1..Len(name) |-> ToLower(name[i])]
      kept == SelectSeq(lower, LAMBDA c : c \in LowerChars \cup SpaceChars \cup {"-"})
      dashed == CollapseRuns(kept, SpaceChars, FALSE)
      single == CollapseRuns(dashed, {"-"}, FALSE)
  IN TrimEnd(TrimStart(single))

\* idRegex /^[a-z0-9]+(-[a-z0-9]+)*$/ of line 203
IsKebab(id) ==
  /\ id # <<>>
  /\ \A i \in 1..Len(id) : id[i] \in LowerChars \cup {"-"}
  /\ id[1] # "-" /\ id[Len(id)] # "-"
  /\ \A i \in 1..(Len(id) - 1) : ~(id[i] = "-" /\ id[i + 1] = "-")

MethodRow(methods, u) ==
  [uuid_id |-> u, id |-> methods[u].id, name |-> methods[u].name,
   active |-> methods[u].active, sort_order |-> methods[u].sort_order,
   admin_name |-> methods[u].admin_name]

\* the results .order('sort_order', { ascending: true }) can give for a set of
\* rows: rows of equal sort_order come in an order the backend chooses
SortedSeqs(S) ==
  {q \in [1..Cardinality(S) -> S] :
     /\ \A i, j \in 1..Cardinality(S) : i # j => q[i] # q[j]
     /\ \A i, j \in 1..Cardinality(S) : i < j => q[i].sort_order <= q[j].sort_order}

\* .eq('is_active', true) on admin_payment_groups, lines 52-55
ActiveAdminNames(groups) == {n \in DOMAIN groups : groups[n]}

\* a plausible slip: the .eq('active', true) filter of line 72 is missing
CustomerRowsAnyActive(methods, activeNames) ==
  {MethodRow(methods, u) : u \in {v \in DOMAIN methods : methods[v].admin_name \in activeNames}}

\* rows selected by the second query of fetchPaymentMethods, lines 69-73
CustomerRows(methods, activeNames) ==
  {MethodRow(methods, u) : u \in {v \in DOMAIN methods :
                           methods[v].active /\ methods[v].admin_name \in activeNames}}

\* what a successful fetchPaymentMethods can put in the list, lines 52-78
CustomerFetch(groups, methods) ==
  IF ActiveAdminNames(groups) = {} THEN {<<>>}
  ELSE SortedSeqs(CustomerRows(methods, ActiveAdminNames(groups)))

\* what fetchAllPaymentMethods can put in the list, lines 92-99
AllFetch(methods) == SortedSeqs({MethodRow(methods, u) : u \in DOMAIN methods})

\* result of fetchAllAdminGroups, lines 111-114
AllGroupsOf(groups) ==
  LET present == SelectSeq(AdminNameOrder, LAMBDA n : n \in DOMAIN groups)
  IN [i \in 1..Len(present) |-> [admin_name |-> present[i], is_active |-> groups[present[i]]]]

GroupNames(list) == {list[i].admin_name : i \in 1..Len(list)}

\* groupedPaymentMethods[key], lines 84-94: the methods the admin view lists
\* under a group name, 'Unassigned' being the key of methods without admin_name
Grouped(list, key) ==
  SelectSeq(list, LAMBDA m : (IF m.admin_name = NoAdmin THEN "Unassigned" ELSE m.admin_name) = key)

\* a method is rendered in the list view under a listed group (lines 486-487)
\* or under 'Unassigned Payment Methods' (lines 627-632)
ShownInAdminView(m, groupList, list) ==
  /\ \E i \in 1..Len(list) : list[i] = m
  /\ \/ m.admin_name \in GroupNames(groupList)
     \/ \E i \in 1..Len(Grouped(list, "Unassigned")) : Grouped(list, "Unassigned")[i] = m

EmptyForm == [id |-> <<>>, name |-> <<>>, active |-> TRUE, sort_order |-> 0,
              admin_name |-> NoAdmin]
NoTarget == [kind |-> "none", adminName |-> NoAdmin, uuidId |-> NoMethod]
\* payLast: the handler that ran last, the group it was about, whether every
\* backend call in it succeeded, and the methods it was about
Ran(op, group, ok, moved) == [op |-> op, group |-> group, ok |-> ok, moved |-> moved]
Other == Ran("other", NoAdmin, TRUE, {})

\* the tables and the view before the mount-time fetches have answered:
\* group A is on, group B is off, one method belongs to A
PayInit ==
  /\ dbGroups = [n \in AdminNames |-> n = "A"]
  /\ dbMethods = [u \in {1} |-> [id |-> <<"g">>, name |-> <<"G">>, active |-> TRUE,
                                 sort_order |-> 1, admin_name |-> "A"]]
  /\ nextUuid = 2
  /\ paymentMethods = <<>>
  /\ adminGroups = <<>>
  /\ allPaymentMethods = <<>>
  /\ currentView = "list"
  /\ editingMethod = NoMethod
  /\ formData = EmptyForm
  /\ deleteTarget = NoTarget
  /\ payLast = Other

\* the view once the mount-time fetches (lines 28-40, 62-65, 267-270) have
\* answered, over any two stored methods: each active or not, in group A, in
\* group B or in none, with equal or different sort_order
GroupsInit ==
  /\ dbGroups = [n \in AdminNames |-> n = "A"]
  /\ \E a1, a2 \in BOOLEAN, g1, g2 \in AdminNames \cup {NoAdmin}, s2 \in 1..2 :
       dbMethods = (1 :> [id |-> <<"g">>, name |-> <<"G">>, active |-> a1,
                          sort_order |-> 1, admin_name |-> g1])
                   @@ (2 :> [id |-> <<"c">>, name |-> <<" ", "c">>, active |-> a2,
                             sort_order |-> s2, admin_name |-> g2])
  /\ nextUuid = 3
  /\ paymentMethods \in CustomerFetch(dbGroups, dbMethods)
  /\ adminGroups = AllGroupsOf(dbGroups)
  /\ allPaymentMethods \in AllFetch(dbMethods)
  /\ currentView = "list"
  /\ editingMethod = NoMethod
  /\ formData = EmptyForm
  /\ deleteTarget = NoTarget
  /\ payLast = Other

\* fetchPaymentMethods (refetch), lines 47-86; a new paymentMethods array
\* re-runs the manager's effect of lines 28-40, which reloads allPaymentMethods
FetchPaymentMethods(ok) ==
  /\ currentView = "list" /\ deleteTarget = NoTarget
  /\ IF ok
     THEN /\ paymentMethods' \in CustomerFetch(dbGroups, dbMethods)
          /\ allPaymentMethods' \in AllFetch(dbMethods)
     ELSE UNCHANGED <<paymentMethods, allPaymentMethods>>
  /\ payLast' = Ran("fetchPaymentMethods", NoAdmin, ok, {})
  /\ UNCHANGED <<dbGroups, dbMethods, nextUuid, adminGroups, currentView,
                 editingMethod, formData, deleteTarget>>
  /\ UNCHANGED outsidePay

\* fetchAllPaymentMethods (refetchAll), lines 88-107, and the manager's effect
FetchAllPaymentMethods ==
  /\ currentView = "list" /\ deleteTarget = NoTarget
  /\ \E data \in AllFetch(dbMethods) :
       /\ paymentMethods' = data
       /\ allPaymentMethods' = data
  /\ payLast' = Other
  /\ UNCHANGED <<dbGroups, dbMethods, nextUuid, adminGroups, currentView,
                 editingMethod, formData, deleteTarget>>
  /\ UNCHANGED outsidePay

\* fetchAllAdminGroups (refetchAdminGroups), lines 109-122
FetchAllAdminGroups ==
  /\ currentView = "list" /\ deleteTarget = NoTarget
  /\ adminGroups' = AllGroupsOf(dbGroups)
  /\ payLast' = Other
  /\ UNCHANGED <<dbGroups, dbMethods, nextUuid, paymentMethods, allPaymentMethods,
                 currentView, editingMethod, formData, deleteTarget>>
  /\ UNCHANGED outsidePay

\* updateAdminGroup, lines 145-161: the update, fetchAllAdminGroups, then
\* fetchPaymentMethods, which keeps the old list when its own queries fail
UpdateAdminGroup(adminName, isActive, updateOk, refetchOk) ==
  /\ IF updateOk
     THEN /\ dbGroups' = IF adminName \in DOMAIN dbGroups
                         THEN [dbGroups EXCEPT ![adminName] = isActive]
                         ELSE dbGroups
          /\ adminGroups' = AllGroupsOf(dbGroups')
          /\ IF refetchOk
             THEN /\ paymentMethods' \in CustomerFetch(dbGroups', dbMethods)
                  /\ allPaymentMethods' \in AllFetch(dbMethods)
             ELSE UNCHANGED <<paymentMethods, allPaymentMethods>>
     ELSE UNCHANGED <<dbGroups, adminGroups, paymentMethods, allPaymentMethods>>
  /\ payLast' = Ran("updateAdminGroup", adminName, updateOk /\ refetchOk, {})
  /\ UNCHANGED <<dbMethods, nextUuid, currentView, editingMethod, formData, deleteTarget>>
  /\ UNCHANGED outsidePay

\* handleToggleGroup, lines 96-101: the new value is the negation of the
\* is_active the view holds
HandleToggleGroup(adminName, updateOk, refetchOk) ==
  /\ currentView = "list" /\ deleteTarget = NoTarget
  /\ \E i \in 1..Len(adminGroups) :
       /\ adminGroups[i].admin_name = adminName
       /\ UpdateAdminGroup(adminName, ~adminGroups[i].is_active, updateOk, refetchOk)

\* handleDeleteAdminGroup, lines 117-121 (no button for the group 'Old')
HandleDeleteAdminGroup(adminName) ==
  /\ currentView = "list" /\ deleteTarget = NoTarget
  /\ adminName \in GroupNames(adminGroups)
  /\ adminName # "Old"
  /\ deleteTarget' = [kind |-> "group", adminName |-> adminName, uuidId |-> NoMethod]
  /\ UNCHANGED <<dbGroups, dbMethods, nextUuid, paymentMethods, adminGroups,
                 allPaymentMethods, currentView, editingMethod, formData, payLast>>
  /\ UNCHANGED outsidePay

\* confirmDeleteAdminGroup, lines 123-134, with deleteAdminGroup, lines
\* 163-177: only the group row is deleted, only the groups are fetched again
ConfirmDeleteAdminGroup(ok) ==
  /\ deleteTarget.kind = "group"
  /\ deleteTarget.adminName # NoAdmin
  /\ IF ok
     THEN /\ dbGroups' = Without(dbGroups, deleteTarget.adminName)
          /\ adminGroups' = AllGroupsOf(dbGroups')
          /\ deleteTarget' = NoTarget
     ELSE UNCHANGED <<dbGroups, adminGroups, deleteTarget>>
  /\ payLast' = Ran("confirmDeleteAdminGroup", deleteTarget.adminName, ok,
                    {u \in DOMAIN dbMethods : dbMethods[u].admin_name = deleteTarget.adminName})
  /\ UNCHANGED <<dbMethods, nextUuid, paymentMethods, allPaymentMethods,
                 currentView, editingMethod, formData>>
  /\ UNCHANGED outsidePay

\* Cancel button of the modal, lines 710-719
CancelDelete ==
  /\ deleteTarget # NoTarget
  /\ deleteTarget' = NoTarget
  /\ UNCHANGED <<dbGroups, dbMethods, nextUuid, paymentMethods, adminGroups,
                 allPaymentMethods, currentView, editingMethod, formData, payLast>>
  /\ UNCHANGED outsidePay

\* Math.max(...methodsInGroup.map(m => m.sort_order), 0) + 1, else 1
NextSortOrder(list, adminName) ==
  LET inGroup == {list[i].sort_order : i \in {j \in 1..Len(list) : list[j].admin_name = adminName}}
  IN IF inGroup = {} THEN 1 ELSE SetMax(inGroup \cup {0}) + 1

\* handleAddMethod, lines 140-159, from the + button of a listed group
HandleAddMethod(adminName) ==
  /\ currentView = "list" /\ deleteTarget = NoTarget
  /\ adminName \in GroupNames(adminGroups)
  /\ formData' = [id |-> <<>>, name |-> <<>>, active |-> TRUE,
                  sort_order |-> NextSortOrder(allPaymentMethods, adminName),
                  admin_name |-> adminName]
  /\ currentView' = "add"
  /\ UNCHANGED <<dbGroups, dbMethods, nextUuid, paymentMethods, adminGroups,
                 allPaymentMethods, editingMethod, deleteTarget>>
  /\ payLast' = Other
  /\ UNCHANGED outsidePay

\* handleEditMethod, lines 161-174, on a method the list view renders
HandleEditMethod(m) ==
  /\ currentView = "list" /\ deleteTarget = NoTarget
  /\ ShownInAdminView(m, adminGroups, allPaymentMethods)
  /\ editingMethod' = m.uuid_id
  /\ formData' = [id |-> m.id, name |-> m.name, active |-> m.active,
                  sort_order |-> m.sort_order, admin_name |-> m.admin_name]
  /\ currentView' = "edit"
  /\ UNCHANGED <<dbGroups, dbMethods, nextUuid, paymentMethods, adminGroups,
                 allPaymentMethods, deleteTarget>>
  /\ payLast' = Other
  /\ UNCHANGED outsidePay

\* a plausible slip: the id follows the name in the edit view as well
FormIdRegenerated(view, name, id) == generateIdFromName(name)

\* id written by handleNameChange, line 257
FormIdAfterName(view, name, id) == IF view = "add" THEN generateIdFromName(name) ELSE id

\* handleNameChange, lines 253-259
HandleNameChange(name) ==
  /\ currentView \in {"add", "edit"}
  /\ formData' = [formData EXCEPT !.name = name,
                                  !.id = FormIdAfterName(currentView, name, formData.id)]
  /\ UNCHANGED <<dbGroups, dbMethods, nextUuid, paymentMethods, adminGroups,
                 allPaymentMethods, currentView, editingMethod, deleteTarget>>
  /\ payLast' = Other
  /\ UNCHANGED outsidePay

\* onChange of the Method ID input, lines 316-323: disabled in the edit view
HandleIdChange(id) ==
  /\ currentView = "add"
  /\ formData' = [formData EXCEPT !.id = id]
  /\ UNCHANGED <<dbGroups, dbMethods, nextUuid, paymentMethods, adminGroups,
                 allPaymentMethods, currentView, editingMethod, deleteTarget>>
  /\ payLast' = Other
  /\ UNCHANGED outsidePay

\* onChange of the Active checkbox, lines 395-400
HandleActiveChange ==
  /\ currentView \in {"add", "edit"}
  /\ formData' = [formData EXCEPT !.active = ~formData.active]
  /\ UNCHANGED <<dbGroups, dbMethods, nextUuid, paymentMethods, adminGroups,
                 allPaymentMethods, currentView, editingMethod, deleteTarget>>
  /\ payLast' = Other
  /\ UNCHANGED outsidePay

\* handleCancel, lines 239-242
HandleCancel ==
  /\ currentView \in {"add", "edit"}
  /\ currentView' = "list"
  /\ editingMethod' = NoMethod
  /\ UNCHANGED <<dbGroups, dbMethods, nextUuid, paymentMethods, adminGroups,
                 allPaymentMethods, formData, deleteTarget>>
  /\ payLast' = Other
  /\ UNCHANGED outsidePay

\* the columns updatePaymentMethod writes, lines 210-218: id is not among them
UpdatedRow(row, updates) ==
  [row EXCEPT !.name = updates.name, !.active = updates.active,
              !.sort_order = updates.sort_order, !.admin_name = updates.admin_name]

\* the row addPaymentMethod inserts, lines 183-192
InsertedRow(method) ==
  [id |-> method.id, name |-> method.name, active |-> method.active,
   sort_order |-> method.sort_order, admin_name |-> method.admin_name]

\* onChange of the Admin Name select, lines 363-372: '' or a listed group
HandleAdminNameChange(adminName) ==
  /\ currentView \in {"add", "edit"}
  /\ adminName \in GroupNames(adminGroups) \cup {NoAdmin}
  /\ formData' = [formData EXCEPT !.admin_name = adminName]
  /\ UNCHANGED <<dbGroups, dbMethods, nextUuid, paymentMethods, adminGroups,
                 allPaymentMethods, currentView, editingMethod, deleteTarget>>
  /\ payLast' = Other
  /\ UNCHANGED outsidePay

\* the listed methods that have the form's id in the form's group, lines 211-213
ListedDuplicates(list, form) ==
  {list[i].uuid_id : i \in {j \in 1..Len(list) :
      list[j].id = form.id /\ list[j].admin_name = form.admin_name}}

\* a plausible slip: the add view does not look for the id in the group
DuplicateInGroupNever(list, form) == FALSE

\* duplicateInGroup, lines 211-213
DuplicateInGroup(list, form) == ListedDuplicates(list, form) # {}

\* the required fields and the kebab-case test, lines 197-207
\* (the account and QR fields of the form are taken as filled in)
FieldsValid ==
  /\ formData.id # <<>> /\ formData.name # <<>> /\ formData.admin_name # NoAdmin
  /\ IsKebab(formData.id)

\* the checks of handleSaveMethod before it calls the hook, lines 197-218
SaveAccepted ==
  /\ FieldsValid
  /\ currentView = "add" => ~DuplicateInGroup(allPaymentMethods, formData)

\* the backend's uniqueness of (id, admin_name) in payment_methods, whose
\* error 23505 'duplicate key' the catch of lines 229-233 reports: the row
\* would repeat the pair of another stored row
DuplicateKey(rows, uuid, row) ==
  \E u \in DOMAIN rows \ {uuid} :
    rows[u].id = row.id /\ rows[u].admin_name = row.admin_name

\* handleSaveMethod, lines 196-237, with updatePaymentMethod, lines 206-228,
\* and addPaymentMethod, lines 179-204; a rejected write throws and the catch
\* of lines 227-236 leaves the form open
HandleSaveMethod ==
  /\ currentView \in {"add", "edit"}
  /\ IF ~SaveAccepted
     THEN /\ payLast' = Ran("saveRejected", NoAdmin, FALSE, {})
          /\ UNCHANGED <<dbMethods, nextUuid, paymentMethods, allPaymentMethods,
                         currentView, editingMethod>>
     ELSE IF editingMethod # NoMethod
     THEN LET stored == editingMethod \in DOMAIN dbMethods
              thrown == stored /\ DuplicateKey(dbMethods, editingMethod,
                                     UpdatedRow(dbMethods[editingMethod], formData))
          IN /\ payLast' = Ran("updatePaymentMethod", NoAdmin, ~thrown,
                               {editingMethod})
             /\ UNCHANGED nextUuid
             /\ IF thrown
                THEN UNCHANGED <<dbMethods, paymentMethods, allPaymentMethods,
                                 currentView, editingMethod>>
                ELSE /\ dbMethods' = IF stored
                                     THEN [dbMethods EXCEPT
                                             ![editingMethod] = UpdatedRow(@, formData)]
                                     ELSE dbMethods
                     /\ \E data \in AllFetch(dbMethods') :
                          /\ paymentMethods' = data
                          /\ allPaymentMethods' = data
                     /\ currentView' = "list"
                     /\ editingMethod' = NoMethod
     ELSE LET thrown == DuplicateKey(dbMethods, nextUuid, InsertedRow(formData))
          IN /\ thrown \/ nextUuid <= MaxMethods
             /\ payLast' = Ran("addPaymentMethod", NoAdmin, ~thrown,
                               ListedDuplicates(allPaymentMethods, formData))
             /\ IF thrown
                THEN UNCHANGED <<dbMethods, nextUuid, paymentMethods,
                                 allPaymentMethods, currentView, editingMethod>>
                ELSE /\ dbMethods' = dbMethods @@ (nextUuid :> InsertedRow(formData))
                     /\ nextUuid' = nextUuid + 1
                     /\ \E data \in AllFetch(dbMethods') :
                          /\ paymentMethods' = data
                          /\ allPaymentMethods' = data
                     /\ currentView' = "list"
                     /\ editingMethod' = NoMethod
  /\ UNCHANGED <<dbGroups, adminGroups, formData, deleteTarget>>
  /\ UNCHANGED outsidePay

\* the group operations of the admin view and the fetches of the hook
GroupsNext ==
  \/ \E ok \in BOOLEAN : FetchPaymentMethods(ok)
  \/ FetchAllPaymentMethods
  \/ FetchAllAdminGroups
  \/ \E n \in AdminNames, uok \in BOOLEAN, rok \in BOOLEAN : HandleToggleGroup(n, uok, rok)
  \/ \E n \in AdminNames : HandleDeleteAdminGroup(n)
  \/ \E ok \in BOOLEAN : ConfirmDeleteAdminGroup(ok)
  \/ CancelDelete

\* the add/edit form of the admin view
FormNext ==
  \/ FetchAllPaymentMethods
  \/ FetchAllAdminGroups
  \/ \E n \in AdminNames : HandleAddMethod(n)
  \/ \E i \in 1..Len(allPaymentMethods) : HandleEditMethod(allPaymentMethods[i])
  \/ \E name \in NameInputs : HandleNameChange(name)
  \/ \E id \in IdInputs : HandleIdChange(id)
  \/ HandleActiveChange
  \/ \E n \in SelectedGroups : HandleAdminNameChange(n)
  \/ HandleCancel
  \/ HandleSaveMethod

(***************************************************************************)
(* useMemberAuth and useMembers (src/hooks/useMemberDiscounts.ts).         *)
(***************************************************************************)

\* hashPassword, lines 164-172: the SHA-256 digest in lower-case hex
hashPassword(password) ==
  CASE password = "p" -> "148de9c5a7a44d19e56cd9ae1a554bf67847afb0c58f6e12fa29ac7ddfca9940"
    [] password = "q" -> "8e35c2cd3bf6641bdb0e2050b76932cbb2e6034a0ddacc1d9bea82a6ba57f7cf"

\* a login that accepts every password
verifyPasswordAlways(password, hash) == TRUE

\* verifyPassword, lines 174-177
verifyPassword(password, hash) == hashPassword(password) = hash

\* a members row as the client receives it from select('*')
MemberRow(id) ==
  [id |-> id, email |-> dbMembers[id].email, username |-> dbMembers[id].username,
   password_hash |-> dbMembers[id].password_hash, status |-> dbMembers[id].status,
   user_type |-> dbMembers[id].user_type, level |-> dbMembers[id].level]

\* .single(): the row when exactly one row matches, otherwise no data
Single(S) == IF Cardinality(S) = 1 THEN MemberRow(CHOOSE id \in S : TRUE) ELSE NullMember

ByEmail(email) == {id \in DOMAIN dbMembers : dbMembers[id].email = email}
ByUsername(username) == {id \in DOMAIN dbMembers : dbMembers[id].username = username}
\* checkAuth's query, lines 189-194
ActiveById(id) == {x \in DOMAIN dbMembers : x = id /\ dbMembers[x].status = "active"}

\* a registration that skips the look-up by email
existingEmailSkipped(email) == NullMember

\* register's look-up by email, lines 236-240
existingEmail(email) == Single(ByEmail(email))

\* register's look-up by username, lines 246-250
existingUsername(username) == Single(ByUsername(username))

\* the members table refuses a row whose email or username another row holds
UniqueViolation(email, username) == ByEmail(email) # {} \/ ByUsername(username) # {}
\* error.message of the refused insert
UniqueMessage == "duplicate key value violates unique constraint"

\* window.dispatchEvent(new CustomEvent('memberAuthUpdate')), lines 282, 321:
\* the listener of every instance runs checkAuth, which reads member_id from
\* localStorage at once (line 186) and then awaits its query
Dispatch(id) == [j \in Instances |-> checking[j] \cup {id}]

Idle == [pc |-> "idle"]
Registering == {i \in Instances : registering[i] # Idle}

\* memLast: the call that returned last, its arguments, its result, the
\* stored member_id and currentMember it started from, and for register what
\* the table held when each look-up ran
MemOther ==
  [op |-> "other", inst |-> 0, email |-> "", username |-> "", password |-> "",
   success |-> FALSE, error |-> NoError, member |-> NullMember,
   preStored |-> NoMember, preCurrent |-> NullMember,
   emailExisted |-> FALSE, usernameExisted |-> FALSE, inserted |-> FALSE]

\* one member is registered, nobody is logged in, the mount-time checkAuth
\* of each instance has found no member_id (lines 208-211)
MembersInit ==
  /\ dbMembers = (1 :> [email |-> "a@x", username |-> "ann",
                        password_hash |-> hashPassword("p"), status |-> "active",
                        user_type |-> "end_user", level |-> 1])
  /\ nextMemberId = 2
  /\ storedMemberId = NoMember
  /\ currentMember = [i \in Instances |-> NullMember]
  /\ checking = [i \in Instances |-> {}]
  /\ registering = [i \in Instances |-> Idle]
  /\ memLast = MemOther
  /\ adminChanged = {}

\* login, lines 293-327; answered = FALSE is the query ending in an error
Login(i, email, password, answered) ==
  LET member == IF answered THEN Single(ByEmail(email)) ELSE NullMember
      err == IF member = NullMember THEN "Invalid email or password"
             ELSE IF member.status # "active" THEN "Account is inactive"
             ELSE IF ~verifyPassword(password, member.password_hash)
                  THEN "Invalid email or password"
             ELSE NoError
  IN /\ IF err = NoError
        THEN /\ storedMemberId' = member.id
             /\ currentMember' = [currentMember EXCEPT ![i] = member]
             /\ checking' = Dispatch(member.id)
        ELSE UNCHANGED <<storedMemberId, currentMember, checking>>
     /\ memLast' = [MemOther EXCEPT !.op = "login", !.inst = i, !.email = email,
                      !.password = password, !.success = (err = NoError),
                      !.error = err,
                      !.member = IF err = NoError THEN member ELSE NullMember,
                      !.preStored = storedMemberId, !.preCurrent = currentMember[i]]
     /\ UNCHANGED <<dbMembers, nextMemberId, registering>>
     /\ UNCHANGED adminChanged
  /\ UNCHANGED outsideMembers

\* checkAuth after its query, lines 188-207
CheckAuthDone(j, id, answered) ==
  /\ id \in checking[j]
  /\ checking' = [checking EXCEPT ![j] = @ \ {id}]
  /\ LET data == IF answered THEN Single(ActiveById(id)) ELSE NullMember
     IN IF data # NullMember
        THEN /\ currentMember' = [currentMember EXCEPT ![j] = data]
             /\ UNCHANGED storedMemberId
        ELSE /\ storedMemberId' = NoMember
             /\ currentMember' = [currentMember EXCEPT ![j] = NullMember]
  /\ memLast' = MemOther
  /\ UNCHANGED <<dbMembers, nextMemberId, registering>>
  /\ UNCHANGED adminChanged
  /\ UNCHANGED outsideMembers

\* logout, lines 329-332
Logout(i) ==
  /\ storedMemberId' = NoMember
  /\ currentMember' = [currentMember EXCEPT ![i] = NullMember]
  /\ memLast' = MemOther
  /\ UNCHANGED <<dbMembers, nextMemberId, checking, registering>>
  /\ UNCHANGED adminChanged
  /\ UNCHANGED outsideMembers

\* register up to its first look-up, lines 233-244
RegisterStart(i, email, username, password) ==
  /\ registering[i] = Idle
  /\ nextMemberId + Cardinality(Registering) <= MaxMembers
  /\ LET call == [pc |-> "username", email |-> email, username |-> username,
                  password |-> password, emailExisted |-> ByEmail(email) # {},
                  usernameExisted |-> ByUsername(username) # {},
                  preStored |-> storedMemberId, preCurrent |-> currentMember[i]]
     IN IF existingEmail(email) # NullMember
        THEN /\ memLast' = [MemOther EXCEPT !.op = "register", !.inst = i,
                              !.email = email, !.username = username,
                              !.password = password,
                              !.error = "Email already registered",
                              !.preStored = storedMemberId,
                              !.preCurrent = currentMember[i],
                              !.emailExisted = call.emailExisted,
                              !.usernameExisted = call.usernameExisted]
             /\ UNCHANGED registering
        ELSE /\ registering' = [registering EXCEPT ![i] = call]
             /\ memLast' = MemOther
  /\ UNCHANGED <<dbMembers, nextMemberId, storedMemberId, currentMember, checking>>
  /\ UNCHANGED adminChanged
  /\ UNCHANGED outsideMembers

\* what a register call in progress returns, with what memLast records of it
Returned(i, call, success, error, member, inserted) ==
  [MemOther EXCEPT !.op = "register", !.inst = i, !.email = call.email,
     !.username = call.username, !.password = call.password,
     !.success = success, !.error = error, !.member = member,
     !.preStored = call.preStored, !.preCurrent = call.preCurrent,
     !.emailExisted = call.emailExisted,
     !.usernameExisted = call.usernameExisted, !.inserted = inserted]

\* register's second look-up, lines 246-254
RegisterCheckUsername(i) ==
  /\ registering[i] # Idle /\ registering[i].pc = "username"
  /\ LET call == [registering[i] EXCEPT
                    !.usernameExisted = ByUsername(registering[i].username) # {}]
     IN IF existingUsername(call.username) # NullMember
        THEN /\ memLast' = Returned(i, call, FALSE, "Username already taken",
                                    NullMember, FALSE)
             /\ registering' = [registering EXCEPT ![i] = Idle]
        ELSE /\ registering' = [registering EXCEPT ![i] = [call EXCEPT !.pc = "insert"]]
             /\ memLast' = MemOther
  /\ UNCHANGED <<dbMembers, nextMemberId, storedMemberId, currentMember, checking>>
  /\ UNCHANGED adminChanged
  /\ UNCHANGED outsideMembers

\* a plausible slip: the role comes from the registration form
InsertedMemberAsAsked(call) ==
  [email |-> call.email, username |-> call.username,
   password_hash |-> hashPassword(call.password),
   status |-> "active", user_type |-> "reseller", level |-> 1]

\* the row register inserts, lines 262-270
InsertedMember(call) ==
  [email |-> call.email, username |-> call.username,
   password_hash |-> hashPassword(call.password),
   status |-> "active", user_type |-> "end_user", level |-> 1]

\* register's insert and what follows it, lines 256-286
RegisterInsert(i) ==
  /\ registering[i] # Idle /\ registering[i].pc = "insert"
  /\ registering' = [registering EXCEPT ![i] = Idle]
  /\ LET call == registering[i]
         row == InsertedMember(call)
         newMember == [id |-> nextMemberId, email |-> row.email,
                       username |-> row.username,
                       password_hash |-> row.password_hash,
                       status |-> row.status, user_type |-> row.user_type,
                       level |-> row.level]
     IN IF UniqueViolation(call.email, call.username)
        THEN /\ memLast' = Returned(i, call, FALSE, UniqueMessage, NullMember, FALSE)
             /\ UNCHANGED <<dbMembers, nextMemberId, storedMemberId, currentMember,
                            checking>>
        ELSE /\ dbMembers' = dbMembers @@ (nextMemberId :> row)
             /\ nextMemberId' = nextMemberId + 1
             /\ storedMemberId' = nextMemberId
             /\ currentMember' = [currentMember EXCEPT ![i] = newMember]
             /\ checking' = Dispatch(nextMemberId)
             /\ memLast' = Returned(i, call, TRUE, NoError, newMember, TRUE)
  /\ UNCHANGED adminChanged
  /\ UNCHANGED outsideMembers

\* useMembers.updateMember, lines 443-464: update(updates) writes the columns
\* the caller named, of level, status and user_type
UpdateMember(id, updates) ==
  /\ id \in DOMAIN dbMembers
  /\ \E k \in DOMAIN updates : dbMembers[id][k] # updates[k]
  /\ dbMembers' = [dbMembers EXCEPT ![id] =
                     [k \in DOMAIN @ |-> IF k \in DOMAIN updates THEN updates[k] ELSE @[k]]]
  /\ adminChanged' = adminChanged \cup {id}
  /\ memLast' = MemOther
  /\ UNCHANGED <<nextMemberId, storedMemberId, currentMember, checking, registering>>
  /\ UNCHANGED outsideMembers

MembersNext ==
  \/ \E i \in LoginInstances, e \in Emails, p \in Passwords, a \in BOOLEAN : Login(i, e, p, a)
  \/ \E j \in Instances, id \in 1..MaxMembers, a \in BOOLEAN : CheckAuthDone(j, id, a)
  \/ \E i \in LoginInstances : Logout(i)
  \/ \E i \in Instances, e \in Emails, u \in Usernames, p \in RegisterPasswords :
       RegisterStart(i, e, u, p)
  \/ \E i \in Instances : RegisterCheckUsername(i)
  \/ \E i \in Instances : RegisterInsert(i)
  \/ \E id \in EditedMembers, s \in MemberStatuses : UpdateMember(id, [status |-> s])

\* the changes the admin's member view asks updateMember for
MemberUpdates == {[user_type |-> "reseller"], [user_type |-> "end_user"],
                  [status |-> "inactive"], [level |-> 2]}

\* registrations, logins and the admin's edits of any member
AdminNext ==
  \/ \E i \in LoginInstances, e \in Emails, p \in RegisterPasswords : Login(i, e, p, TRUE)
  \/ \E j \in Instances, id \in 1..MaxMembers : CheckAuthDone(j, id, TRUE)
  \/ \E i \in LoginInstances : Logout(i)
  \/ \E i \in LoginInstances, e \in Emails, u \in Usernames, p \in RegisterPasswords :
       RegisterStart(i, e, u, p)
  \/ \E i \in LoginInstances : RegisterCheckUsername(i)
  \/ \E i \in LoginInstances : RegisterInsert(i)
  \/ \E id \in 1..MaxMembers, u \in MemberUpdates : UpdateMember(id, u)

(***************************************************************************)
(* MenuItemCard's price selection (src/components/ImageUpload.tsx).        *)
(***************************************************************************)

\* isReseller, useMemberDiscounts.ts lines 334-336
isReseller(m) == m # NullMember /\ m.user_type = "reseller"

\* the truthiness of a number or of a missing key
Truthy(x) == x # Undefined /\ x # 0

\* getVariationById, lines 195-198, with variation?.field of no variation
NoVariationRow == [reseller_price |-> Undefined, member_price |-> Undefined]
getVariationById(variationId) ==
  IF variationId = NoVariation \/ variationId \notin DOMAIN itemVariations
  THEN NoVariationRow
  ELSE itemVariations[variationId]

\* memberDiscounts[variationId]
Cached(cache, variationId) ==
  IF variationId \in DOMAIN cache THEN cache[variationId] ELSE Undefined

\* basePrice - basePrice * item.discountPercentage, lines 221-222
AfterDiscount(basePrice, percentage) == basePrice - (basePrice * percentage) \div 100

\* getDiscountedPriceSync, lines 200-227
getDiscountedPriceSync(m, cache, basePrice, variationId) ==
  LET variation == getVariationById(variationId)
  IN IF isReseller(m) /\ m # NullMember /\ variation.reseller_price # Undefined
     THEN variation.reseller_price
     ELSE IF m # NullMember /\ ~isReseller(m) /\ m.user_type = "end_user"
             /\ variation.member_price # Undefined
     THEN variation.member_price
     ELSE IF isReseller(m) /\ m # NullMember /\ variationId # NoVariation
             /\ Truthy(Cached(cache, variationId))
     THEN Cached(cache, variationId)
     ELSE IF itemDiscount.isOnDiscount /\ itemDiscount.discountPercentage # Undefined
     THEN AfterDiscount(basePrice, itemDiscount.discountPercentage)
     ELSE basePrice

\* getDiscountForItem, useMemberDiscounts.ts lines 113-144: maybeSingle()
getDiscountForItem(memberId, variationId) ==
  {d \in dbDiscounts : d.member_id = memberId /\ d.variation_id = variationId}

\* the dependencies of the fetchDiscounts effect, line 177
EffectDeps(m) == [reseller |-> isReseller(m), id |-> m.id]

\* what the fetchDiscounts effect caches, lines 161-173
FetchedDiscounts(m) ==
  IF isReseller(m) /\ m # NullMember
  THEN [v \in {x \in DOMAIN itemVariations : Cardinality(getDiscountForItem(m.id, x)) = 1}
          |-> (CHOOSE d \in getDiscountForItem(m.id, v) : TRUE).selling_price]
  ELSE <<>>

\* a card of an item with one variation, mounted while nobody is logged in;
\* the registered member is an end user or a reseller, with or without a
\* discount row for the variation
PriceInit ==
  /\ itemVariations \in [VariationIds -> [reseller_price : ResellerPrices,
                                          member_price : MemberPrices]]
  /\ itemDiscount \in [isOnDiscount : BOOLEAN, discountPercentage : DiscountPercentages]
  /\ dbDiscounts \in {{}} \cup {{[member_id |-> 1, variation_id |-> v, selling_price |-> p]} :
                                 v \in VariationIds, p \in SellingPrices}
  /\ memberDiscounts = <<>>
  /\ fetchedFor = EffectDeps(NullMember)
  /\ shown = NotShown

\* a card of an item without special prices, discount or discount rows
PriceIdle ==
  /\ itemVariations = [v \in VariationIds |-> NoVariationRow]
  /\ itemDiscount = [isOnDiscount |-> FALSE, discountPercentage |-> Undefined]
  /\ dbDiscounts = {}
  /\ memberDiscounts = <<>>
  /\ fetchedFor = EffectDeps(NullMember)
  /\ shown = NotShown

\* a card of an item whose variation has a reseller price and a member price
PriceListed ==
  /\ itemVariations = [v \in VariationIds |-> [reseller_price |-> 3, member_price |-> 2]]
  /\ itemDiscount = [isOnDiscount |-> FALSE, discountPercentage |-> Undefined]
  /\ dbDiscounts = {}
  /\ memberDiscounts = <<>>
  /\ fetchedFor = EffectDeps(NullMember)
  /\ shown = NotShown

\* the members table of MembersInit with the member an end user or a reseller
PriceMembersInit ==
  /\ dbMembers \in {(1 :> [email |-> "a@x", username |-> "ann",
                           password_hash |-> hashPassword("p"), status |-> "active",
                           user_type |-> t, level |-> 1]) : t \in UserTypes}
  /\ nextMemberId = 2
  /\ storedMemberId = NoMember
  /\ currentMember = [i \in Instances |-> NullMember]
  /\ checking = [i \in Instances |-> {}]
  /\ registering = [i \in Instances |-> Idle]
  /\ memLast = MemOther
  /\ adminChanged = {id \in DOMAIN dbMembers : dbMembers[id].user_type # "end_user"}

\* the fetchDiscounts effect, lines 159-177, run when its dependencies changed
FetchDiscounts ==
  /\ fetchedFor # EffectDeps(currentMember[CardInstance])
  /\ fetchedFor' = EffectDeps(currentMember[CardInstance])
  /\ memberDiscounts' = FetchedDiscounts(currentMember[CardInstance])
  /\ UNCHANGED <<itemVariations, itemDiscount, dbDiscounts, shown>>
  /\ UNCHANGED outsidePrice

\* the card renders the price of a package, lines 468-470
Render(basePrice, variationId) ==
  /\ shown' = [basePrice |-> basePrice, variationId |-> variationId,
               member |-> currentMember[CardInstance],
               cached |-> Cached(memberDiscounts, variationId),
               price |-> getDiscountedPriceSync(currentMember[CardInstance],
                                                memberDiscounts, basePrice, variationId)]
  /\ UNCHANGED <<itemVariations, itemDiscount, dbDiscounts, memberDiscounts, fetchedFor>>
  /\ UNCHANGED outsidePrice

PriceNext ==
  \/ \E i \in LoginInstances, e \in Emails, p \in Passwords : Login(i, e, p, TRUE)
  \/ \E j \in Instances, id \in 1..MaxMembers : CheckAuthDone(j, id, TRUE)
  \/ \E i \in LoginInstances : Logout(i)
  \/ FetchDiscounts
  \/ \E b \in BasePrices, v \in VariationIds \cup {NoVariation} : Render(b, v)

\* what React and the backend do without being asked again: a pending
\* checkAuth of each instance gets its answer, the card's effect runs when its
\* dependencies changed, and the card renders again
PriceFairness ==
  /\ \A j \in Instances : WF_vars(\E id \in 1..MaxMembers : CheckAuthDone(j, id, TRUE))
  /\ WF_vars(FetchDiscounts)
  /\ WF_vars(\E b \in BasePrices, v \in VariationIds \cup {NoVariation} : Render(b, v))

(***************************************************************************)
(* Checkout (src/components/Checkout.tsx).                                 *)
(***************************************************************************)

\* checkoutLast: the handler that ran last, the error it set, whether it
\* called createOrder, and the current_order_id it started from
Did(op, error, called, stored) ==
  [op |-> op, error |-> error, called |-> called, stored |-> stored, ready |-> FALSE]
NothingYet == Did("none", NoError, FALSE, NoOrder)

\* selectedPaymentMethod, line 183
selectedPaymentMethod ==
  {i \in 1..Len(paymentMethods) : paymentMethods[i].id = paymentMethod}

\* the component as constructed, lines 23-42
CheckoutInit ==
  /\ paymentMethod = NoSelection
  /\ receiptImageUrl = NoReceipt
  /\ uploadingReceipt = FALSE
  /\ receiptError = NoError
  /\ hasCopiedMessage = FALSE
  /\ copying = 0
  /\ isPlacingOrder = FALSE
  /\ placing = {}
  /\ dbOrderRows = <<>>
  /\ storedOrderId = NoOrder
  /\ orderId = NoOrder
  /\ existingOrderStatus = NoStatus
  /\ isOrderModalOpen = FALSE
  /\ checkoutLast = NothingYet

\* a payment-method button of the payment step, lines 809-815
SelectPaymentMethod(i) ==
  /\ i \in 1..Len(paymentMethods)
  /\ paymentMethod' = paymentMethods[i].id
  /\ checkoutLast' = Did("selectPaymentMethod", NoError, FALSE, storedOrderId)
  /\ UNCHANGED <<receiptImageUrl, uploadingReceipt, receiptError, hasCopiedMessage,
                 copying, isPlacingOrder, placing, dbOrderRows, storedOrderId, orderId,
                 existingOrderStatus, isOrderModalOpen>>
  /\ UNCHANGED outsideCheckout

\* handleReceiptUpload up to its await, lines 211-225; the file input is on
\* the order step, which handleProceedToOrder opens only with a payment
\* method (lines 203-209), and is shown while no receipt is (line 1079)
HandleReceiptUploadStart ==
  /\ paymentMethod # NoSelection
  /\ ~uploadingReceipt /\ receiptImageUrl = NoReceipt
  /\ uploadingReceipt' = TRUE
  /\ receiptError' = NoError
  /\ checkoutLast' = Did("handleReceiptUpload", NoError, FALSE, storedOrderId)
  /\ UNCHANGED <<paymentMethod, receiptImageUrl, hasCopiedMessage, copying,
                 isPlacingOrder, placing, dbOrderRows, storedOrderId, orderId,
                 existingOrderStatus, isOrderModalOpen>>
  /\ UNCHANGED outsideCheckout

\* handleReceiptUpload after uploadImage, lines 225-232
HandleReceiptUploadDone(url, ok) ==
  /\ uploadingReceipt
  /\ uploadingReceipt' = FALSE
  /\ IF ok
     THEN receiptImageUrl' = url /\ UNCHANGED receiptError
     ELSE receiptError' = "Failed to upload receipt" /\ UNCHANGED receiptImageUrl
  /\ checkoutLast' = Did("handleReceiptUpload", receiptError', FALSE, storedOrderId)
  /\ UNCHANGED <<paymentMethod, hasCopiedMessage, copying, isPlacingOrder, placing,
                 dbOrderRows, storedOrderId, orderId, existingOrderStatus,
                 isOrderModalOpen>>
  /\ UNCHANGED outsideCheckout

\* handleReceiptRemove, lines 234-240, behind the button of lines 1137-1143
HandleReceiptRemove ==
  /\ receiptImageUrl # NoReceipt /\ ~uploadingReceipt
  /\ receiptImageUrl' = NoReceipt
  /\ receiptError' = NoError
  /\ hasCopiedMessage' = FALSE
  /\ checkoutLast' = Did("handleReceiptRemove", NoError, FALSE, storedOrderId)
  /\ UNCHANGED <<paymentMethod, uploadingReceipt, copying, isPlacingOrder, placing,
                 dbOrderRows, storedOrderId, orderId, existingOrderStatus,
                 isOrderModalOpen>>
  /\ UNCHANGED outsideCheckout

\* the copy button is rendered and not disabled, lines 1154-1157
CopyEnabled ==
  /\ orderOption = "order_via_messenger"
  /\ ~uploadingReceipt /\ paymentMethod # NoSelection /\ receiptImageUrl # NoReceipt

\* handleCopyMessage up to await navigator.clipboard.writeText, lines 324-327
HandleCopyMessageStart ==
  /\ CopyEnabled
  /\ copying < MaxCopies
  /\ copying' = copying + 1
  /\ checkoutLast' = Did("handleCopyMessage", NoError, FALSE, storedOrderId)
  /\ UNCHANGED <<paymentMethod, receiptImageUrl, uploadingReceipt, receiptError,
                 hasCopiedMessage, isPlacingOrder, placing, dbOrderRows,
                 storedOrderId, orderId, existingOrderStatus, isOrderModalOpen>>
  /\ UNCHANGED outsideCheckout

\* handleCopyMessage once the clipboard promise has settled, lines 328-333
HandleCopyMessageDone(ok) ==
  /\ copying > 0
  /\ copying' = copying - 1
  /\ hasCopiedMessage' = IF ok THEN TRUE ELSE hasCopiedMessage
  /\ checkoutLast' = Did("handleCopyMessage", NoError, FALSE, storedOrderId)
  /\ UNCHANGED <<paymentMethod, receiptImageUrl, uploadingReceipt, receiptError,
                 isPlacingOrder, placing, dbOrderRows, storedOrderId, orderId,
                 existingOrderStatus, isOrderModalOpen>>
  /\ UNCHANGED outsideCheckout

\* 'Place Order via Messenger' is rendered and not disabled, lines 1224-1227
PlaceOrderEnabled ==
  /\ orderOption = "order_via_messenger"
  /\ ~(paymentMethod = NoSelection \/ receiptImageUrl = NoReceipt
       \/ uploadingReceipt \/ ~hasCopiedMessage)

\* handlePlaceOrder, lines 447-463
HandlePlaceOrder ==
  /\ PlaceOrderEnabled
  /\ IF paymentMethod = NoSelection
     THEN /\ receiptError' = "Please select a payment method"
          /\ checkoutLast' = Did("handlePlaceOrder", receiptError', FALSE, storedOrderId)
     ELSE IF receiptImageUrl = NoReceipt
     THEN /\ receiptError' = "Please upload your payment receipt before placing the order"
          /\ checkoutLast' = Did("handlePlaceOrder", receiptError', FALSE, storedOrderId)
     ELSE /\ UNCHANGED receiptError
          /\ checkoutLast' = Did("handlePlaceOrder", NoError, FALSE, storedOrderId)
  /\ UNCHANGED <<paymentMethod, receiptImageUrl, uploadingReceipt, hasCopiedMessage,
                 copying, isPlacingOrder, placing, dbOrderRows, storedOrderId, orderId,
                 existingOrderStatus, isOrderModalOpen>>
  /\ UNCHANGED outsideCheckout

\* the messenger flow of the checkout
MessengerNext ==
  \/ \E ok \in BOOLEAN : FetchPaymentMethods(ok)
  \/ \E i \in 1..MaxMethods : SelectPaymentMethod(i)
  \/ HandleReceiptUploadStart
  \/ \E url \in ReceiptUrls, ok \in BOOLEAN : HandleReceiptUploadDone(url, ok)
  \/ HandleReceiptRemove
  \/ HandleCopyMessageStart
  \/ \E ok \in BOOLEAN : HandleCopyMessageDone(ok)
  \/ HandlePlaceOrder

\* the hook with order_option loaded as 'place_order'
DirectOrdersInit ==
  /\ \E n \in InitialOrders :
       /\ dbOrders = [id \in 1..n |-> "pending"]
       /\ nextOrderId = n + 1
  /\ orders = <<>>
  /\ ordersMounted = TRUE
  /\ siteSettings = "place_order"
  /\ liveChannels = EffectChannels("place_order")
  /\ events = <<>>
  /\ fetching = {}
  /\ creating = {}
  /\ delivered = NoPayload

\* nobody is logged in, or the registered member is logged in in every instance
AnyoneInit ==
  /\ dbMembers = (1 :> [email |-> "a@x", username |-> "ann",
                        password_hash |-> hashPassword("p"), status |-> "active",
                        user_type |-> "end_user", level |-> 1])
  /\ nextMemberId = 2
  /\ storedMemberId \in {NoMember, 1}
  /\ currentMember = [i \in Instances |->
                        IF storedMemberId = NoMember THEN NullMember ELSE MemberRow(1)]
  /\ checking = [i \in Instances |-> {}]
  /\ registering = [i \in Instances |-> Idle]
  /\ memLast = MemOther
  /\ adminChanged = {}

\* the orderData handlePlaceOrderDirect passes to createOrder, lines 512-518:
\* payment_method_id and receipt_url, and no member_id
OrderData(methodId, receipt) ==
  [payment_method_id |-> methodId, receipt_url |-> receipt, member_id |-> NoMember]

\* the row createOrder inserts, useOrders.ts lines 80-91
InsertedOrder(orderData) ==
  [status |-> CreatedStatus("pending"), member_id |-> orderData.member_id,
   payment_method_id |-> orderData.payment_method_id,
   receipt_url |-> orderData.receipt_url]

\* fetchOrderById, useOrders.ts lines 58-73: the row, or null when the query
\* ends in an error or finds no row
FetchOrderById(id, answered) ==
  IF answered /\ id \in DOMAIN dbOrderRows THEN dbOrderRows[id].status ELSE NoStatus

\* 'Place Order' is rendered and not disabled, lines 1179, 1197-1200
PlaceOrderDirectEnabled ==
  /\ orderOption = "place_order"
  /\ existingOrderStatus = NoStatus \/ existingOrderStatus = "rejected"
  /\ ~(paymentMethod = NoSelection \/ receiptImageUrl = NoReceipt
       \/ uploadingReceipt \/ isPlacingOrder)

\* what handlePlaceOrderDirect needs: a selection that is in the loaded list,
\* and a receipt
ReadyToPlace ==
  /\ paymentMethod # NoSelection
  /\ \E i \in 1..Len(paymentMethods) : paymentMethods[i].id = paymentMethod
  /\ receiptImageUrl # NoReceipt

\* checkoutLast of a handlePlaceOrderDirect call, with ReadyToPlace as it was
DidPlace(error, called) ==
  [Did("handlePlaceOrderDirect", error, called, storedOrderId) EXCEPT
     !.ready = ReadyToPlace]

\* a handler that does not look the selection up in the loaded list
SelectionMissingNever == FALSE

\* !selectedPaymentMethod, line 476
SelectionMissing == selectedPaymentMethod = {}

\* handlePlaceOrderDirect up to the insert of createOrder, lines 465-519;
\* ok = FALSE is the insert ending in an error
HandlePlaceOrderDirect(ok) ==
  /\ PlaceOrderDirectEnabled
  /\ Len(dbOrderRows) < MaxPlaced \/ ~ReadyToPlace
  /\ IF paymentMethod = NoSelection \/ SelectionMissing
     THEN /\ receiptError' = "Please select a payment method"
          /\ checkoutLast' = DidPlace(receiptError', FALSE)
          /\ UNCHANGED <<isPlacingOrder, placing, dbOrderRows>>
     ELSE IF receiptImageUrl = NoReceipt
     THEN /\ receiptError' = "Please upload your payment receipt before placing the order"
          /\ checkoutLast' = DidPlace(receiptError', FALSE)
          /\ UNCHANGED <<isPlacingOrder, placing, dbOrderRows>>
     ELSE /\ isPlacingOrder' = TRUE
          /\ receiptError' = NoError
          /\ checkoutLast' = DidPlace(NoError, TRUE)
          /\ IF ok
             THEN /\ dbOrderRows' = Append(dbOrderRows,
                                       InsertedOrder(OrderData(paymentMethod,
                                                               receiptImageUrl)))
                  /\ placing' = {[data |-> Len(dbOrderRows) + 1]}
             ELSE /\ placing' = {[data |-> NoOrder]}
                  /\ UNCHANGED dbOrderRows
  /\ UNCHANGED <<paymentMethod, receiptImageUrl, uploadingReceipt, hasCopiedMessage,
                 copying, storedOrderId, orderId, existingOrderStatus,
                 isOrderModalOpen>>
  /\ UNCHANGED outsideCheckout

\* handlePlaceOrderDirect after createOrder has returned, lines 521-532
PlaceOrderDirectDone(req) ==
  /\ req \in placing
  /\ placing' = placing \ {req}
  /\ isPlacingOrder' = FALSE
  /\ IF req.data # NoOrder
     THEN /\ orderId' = req.data
          /\ existingOrderStatus' = CreatedStatus("pending")
          /\ storedOrderId' = req.data
          /\ isOrderModalOpen' = TRUE
     ELSE UNCHANGED <<orderId, existingOrderStatus, storedOrderId, isOrderModalOpen>>
  /\ checkoutLast' = Did("placeOrderDirectDone", NoError, FALSE, storedOrderId)
  /\ UNCHANGED <<paymentMethod, receiptImageUrl, uploadingReceipt, receiptError,
                 hasCopiedMessage, copying, dbOrderRows>>
  /\ UNCHANGED outsideCheckout

\* checkExistingOrder, lines 421-444
CheckExistingOrder(answered) ==
  /\ storedOrderId # NoOrder
  /\ LET status == FetchOrderById(storedOrderId, answered)
     IN IF status # NoStatus
        THEN IF status = "approved"
             THEN /\ storedOrderId' = NoOrder
                  /\ existingOrderStatus' = NoStatus
                  /\ orderId' = NoOrder
             ELSE /\ existingOrderStatus' = status
                  /\ orderId' = storedOrderId
                  /\ UNCHANGED storedOrderId
        ELSE /\ storedOrderId' = NoOrder
             /\ UNCHANGED <<existingOrderStatus, orderId>>
  /\ checkoutLast' = Did("checkExistingOrder", NoError, FALSE, storedOrderId)
  /\ UNCHANGED <<paymentMethod, receiptImageUrl, uploadingReceipt, receiptError,
                 hasCopiedMessage, copying, isPlacingOrder, placing, dbOrderRows,
                 isOrderModalOpen>>
  /\ UNCHANGED outsideCheckout

\* the 'View Order' button, lines 1182-1184
ViewOrder ==
  /\ orderOption = "place_order"
  /\ existingOrderStatus \notin {NoStatus, "approved", "rejected"}
  /\ ~isOrderModalOpen
  /\ isOrderModalOpen' = TRUE
  /\ checkoutLast' = Did("viewOrder", NoError, FALSE, storedOrderId)
  /\ UNCHANGED <<paymentMethod, receiptImageUrl, uploadingReceipt, receiptError,
                 hasCopiedMessage, copying, isPlacingOrder, placing, dbOrderRows,
                 storedOrderId, orderId, existingOrderStatus>>
  /\ UNCHANGED outsideCheckout

\* onClose of the order status modal with its fetch, lines 558-576
CloseOrderModal(answered) ==
  /\ isOrderModalOpen
  /\ isOrderModalOpen' = FALSE
  /\ LET status == IF orderId # NoOrder THEN FetchOrderById(orderId, answered)
                   ELSE NoStatus
     IN IF status = NoStatus
        THEN UNCHANGED <<storedOrderId, existingOrderStatus, orderId>>
        ELSE IF status = "approved"
        THEN /\ storedOrderId' = NoOrder
             /\ existingOrderStatus' = NoStatus
             /\ orderId' = NoOrder
        ELSE /\ existingOrderStatus' = status
             /\ UNCHANGED <<storedOrderId, orderId>>
  /\ checkoutLast' = Did("closeOrderModal", NoError, FALSE, storedOrderId)
  /\ UNCHANGED <<paymentMethod, receiptImageUrl, uploadingReceipt, receiptError,
                 hasCopiedMessage, copying, isPlacingOrder, placing, dbOrderRows>>
  /\ UNCHANGED outsideCheckout

\* the admin moves an order of the checkout to another status
\* (updateOrderStatus, useOrders.ts lines 117-127)
AdminSetsStatus(id, status) ==
  /\ id \in DOMAIN dbOrderRows
  /\ dbOrderRows[id].status # status
  /\ dbOrderRows' = [dbOrderRows EXCEPT ![id].status = status]
  /\ checkoutLast' = Did("other", NoError, FALSE, storedOrderId)
  /\ UNCHANGED <<paymentMethod, receiptImageUrl, uploadingReceipt, receiptError,
                 hasCopiedMessage, copying, isPlacingOrder, placing, storedOrderId,
                 orderId, existingOrderStatus, isOrderModalOpen>>
  /\ UNCHANGED outsideCheckout

\* the direct flow of the checkout
DirectNext ==
  \/ FetchPaymentMethods(TRUE)
  \/ \E n \in ToggledGroups, a \in BOOLEAN : UpdateAdminGroup(n, a, TRUE, TRUE)
  \/ \E i \in 1..MaxMethods : SelectPaymentMethod(i)
  \/ HandleReceiptUploadStart
  \/ \E url \in ReceiptUrls, ok \in BOOLEAN : HandleReceiptUploadDone(url, ok)
  \/ HandleReceiptRemove
  \/ \E ok \in BOOLEAN : HandlePlaceOrderDirect(ok)
  \/ \E req \in placing : PlaceOrderDirectDone(req)
  \/ \E a \in BOOLEAN : CheckExistingOrder(a)
  \/ ViewOrder
  \/ \E a \in BOOLEAN : CloseOrderModal(a)
  \/ \E id \in 1..MaxPlaced, st \in OrderStatuses : AdminSetsStatus(id, st)

(***************************************************************************)
(* The details step of Checkout and generateOrderMessage                   *)
(* (src/components/Checkout.tsx).                                          *)
(***************************************************************************)

\* the elements of a set of numbers in ascending order
Ordered(S) ==
  [k \in 1..Cardinality(S) |-> CHOOSE x \in S : Cardinality({y \in S : y <= x}) = k]

\* Array.prototype.join of pieces, each separator a piece of its own
JoinWith(pieces, sep) ==
  [k \in 1..(IF Len(pieces) = 0 THEN 0 ELSE 2 * Len(pieces) - 1) |->
     IF k % 2 = 1 THEN pieces[(k + 1) \div 2] ELSE sep]

Flatten(seqs) ==
  LET RECURSIVE flat(_)
      flat(n) == IF n = 0 THEN <<>> ELSE flat(n - 1) \o seqs[n]
  IN flat(Len(seqs))

\* getOriginalMenuItemId, lines 46-49: the part before ':::CART:::'
getOriginalMenuItemId(id) == id.menu

\* itemsWithCustomFields, lines 55-66: the first cart item of each game that
\* has custom fields
itemsWithCustomFields ==
  LET withFields == {i \in 1..Len(cartItems) : cartItems[i].customFields # <<>>}
      first == {i \in withFields : \A j \in withFields :
                  j < i => getOriginalMenuItemId(cartItems[j].id)
                           # getOriginalMenuItemId(cartItems[i].id)}
  IN [k \in 1..Cardinality(first) |-> cartItems[Ordered(first)[k]]]

\* hasAnyCustomFields, line 68
hasAnyCustomFields == Len(itemsWithCustomFields) > 0

\* `${originalId}_${fieldIndex}_${field.key}` of the inputs, line 680 (and of
\* lines 127 and 498); fieldIndex counts from 0
InputKey(originalId, fieldIndex, key) ==
  originalId \o <<"_">> \o <<ToString(fieldIndex)>> \o <<"_">> \o key

\* `${originalId}_${field.key}` of generateOrderMessage, line 254
MessageKey(originalId, key) == originalId \o <<"_">> \o key

DefaultIgnKey == <<"default_ign">>

\* customFieldValues[key] || ''
ValueAt(values, key) == IF key \in DOMAIN values THEN values[key] ELSE ""

\* setCustomFieldValues(prev => ({ ...prev, [valueKey]: newValue }))
WithValue(values, key, text) ==
  [k \in DOMAIN values \cup {key} |-> IF k = key THEN text ELSE values[k]]

\* the fields of one game that have a value, lines 252-257
FilledFields(item) ==
  LET all == [f \in 1..Len(item.customFields) |->
                [label |-> item.customFields[f].label,
                 value |-> ValueAt(customFieldValues,
                                   MessageKey(getOriginalMenuItemId(item.id),
                                              item.customFields[f].key))]]
  IN SelectSeq(all, LAMBDA x : x.value # "")

\* one entry of gamesByFieldValues as lines, lines 272-291: the names of its
\* games, then its fields in one line
SectionLines(games, fields) ==
  LET allValuesSame == \A f \in 1..Len(fields) : fields[f].value = fields[1].value
      labels == [f \in 1..Len(fields) |-> fields[f].label]
      combinedLabels ==
        [k \in 1..(2 * Len(fields) - 1) |->
           IF k % 2 = 1 THEN labels[(k + 1) \div 2]
           ELSE IF k = 2 * Len(fields) - 2 THEN " & " ELSE ", "]
      fieldStrings ==
        JoinWith([f \in 1..Len(fields) |-> <<fields[f].label, ": ", fields[f].value>>],
                 <<", ">>)
  IN [g \in 1..Len(games) |-> [kind |-> "games", pieces |-> <<games[g]>>]]
     \o <<[kind |-> "fields",
           pieces |-> IF allValuesSame /\ Len(fields) > 1
                      THEN combinedLabels \o <<": ", fields[1].value>>
                      ELSE Flatten(fieldStrings)]>>

\* customFieldsSection of generateOrderMessage, lines 244-299, as lines
generateOrderMessage ==
  IF hasAnyCustomFields
  THEN LET items == itemsWithCustomFields
           filled == {i \in 1..Len(items) : FilledFields(items[i]) # <<>>}
           leaders == {i \in filled : \A j \in filled :
                         j < i => FilledFields(items[j]) # FilledFields(items[i])}
           gamesOf(i) == LET same == {j \in filled :
                                        FilledFields(items[j]) = FilledFields(items[i])}
                         IN [k \in 1..Cardinality(same) |-> items[Ordered(same)[k]].name]
       IN Flatten([k \in 1..Cardinality(leaders) |->
                     SectionLines(gamesOf(Ordered(leaders)[k]),
                                  FilledFields(items[Ordered(leaders)[k]]))])
  ELSE <<[kind |-> "ign", pieces |-> <<"IGN: ", ValueAt(customFieldValues, DefaultIgnKey)>>]>>

\* no cart, nothing typed
DetailsIdle ==
  /\ cartItems = <<>>
  /\ customFieldValues = <<>>
  /\ message = NotGenerated

\* the component mounted with a cart, lines 17-20
DetailsInit ==
  /\ cartItems \in Carts
  /\ customFieldValues = <<>>
  /\ message = NotGenerated

\* onChange of a custom field input, lines 688-694
TypeCustomField(i, f, text) ==
  /\ hasAnyCustomFields
  /\ i \in 1..Len(itemsWithCustomFields)
  /\ f \in 1..Len(itemsWithCustomFields[i].customFields)
  /\ customFieldValues' =
       WithValue(customFieldValues,
                 InputKey(getOriginalMenuItemId(itemsWithCustomFields[i].id), f - 1,
                          itemsWithCustomFields[i].customFields[f].key),
                 text)
  /\ message' = NotGenerated
  /\ UNCHANGED cartItems
  /\ UNCHANGED outsideDetails

\* onChange of the default IGN input, lines 715-727
TypeDefaultIgn(text) ==
  /\ ~hasAnyCustomFields
  /\ customFieldValues' = WithValue(customFieldValues, DefaultIgnKey, text)
  /\ message' = NotGenerated
  /\ UNCHANGED cartItems
  /\ UNCHANGED outsideDetails

\* generateOrderMessage called by handleCopyMessage (line 326) or
\* handlePlaceOrder (line 452)
GenerateMessage ==
  /\ message' = generateOrderMessage
  /\ UNCHANGED <<cartItems, customFieldValues>>
  /\ UNCHANGED outsideDetails

DetailsNext ==
  \/ \E i \in 1..MaxItems, f \in 1..MaxFields, t \in Texts : TypeCustomField(i, f, t)
  \/ \E t \in Texts : TypeDefaultIgn(t)
  \/ GenerateMessage

\* the view of useOrders starts next to an idle payment-method view
InitOrders == OrdersInit /\ PayInit /\ MembersInit /\ PriceIdle /\ CheckoutInit /\ DetailsIdle

SpecOrders == InitOrders /\ [][OrdersNext]_vars

InitGroups == OrdersInit /\ GroupsInit /\ MembersInit /\ PriceIdle /\ CheckoutInit /\ DetailsIdle

SpecGroups == InitGroups /\ [][GroupsNext]_vars

InitForm == OrdersInit /\ PayInit /\ MembersInit /\ PriceIdle /\ CheckoutInit /\ DetailsIdle

SpecForm == InitForm /\ [][FormNext]_vars

InitMembers == OrdersInit /\ PayInit /\ MembersInit /\ PriceIdle /\ CheckoutInit /\ DetailsIdle

SpecMembers == InitMembers /\ [][MembersNext]_vars

InitPrice == OrdersInit /\ PayInit /\ PriceMembersInit /\ PriceInit /\ CheckoutInit /\ DetailsIdle

SpecPrice == InitPrice /\ [][PriceNext]_vars

InitMessenger == OrdersInit /\ PayInit /\ MembersInit /\ PriceIdle /\ CheckoutInit /\ DetailsIdle

SpecMessenger == InitMessenger /\ [][MessengerNext]_vars

InitDirect == DirectOrdersInit /\ PayInit /\ AnyoneInit /\ PriceIdle /\ CheckoutInit /\ DetailsIdle

SpecDirect == InitDirect /\ [][DirectNext]_vars


\* registrations, logins and the admin's member edits
InitAdmin == OrdersInit /\ PayInit /\ MembersInit /\ PriceIdle /\ CheckoutInit /\ DetailsIdle

SpecAdmin == InitAdmin /\ [][AdminNext]_vars

\* a card with listed member prices, under the scheduling PriceFairness states
InitListed == OrdersInit /\ PayInit /\ PriceMembersInit /\ PriceListed /\ CheckoutInit /\ DetailsIdle

SpecListed == InitListed /\ [][PriceNext]_vars /\ PriceFairness

\* the details step with a cart, and the order message
InitDetails == OrdersInit /\ PayInit /\ MembersInit /\ PriceIdle /\ CheckoutInit /\ DetailsInit

SpecDetails == InitDetails /\ [][DetailsNext]_vars

(***************************************************************************)
(* Claims about useOrders.                                                 *)
(***************************************************************************)

\* C1: whatever the interleaving of fetchOrders, createOrder,
\* updateOrderStatus and realtime callbacks, the orders list never holds two
\* entries with the same order id.
C1_NoDuplicateOrderIds ==
  \A i, j \in 1..Len(orders) : i # j => orders[i].id # orders[j].id

\* C3: the instance is subscribed to exactly one channel while it is mounted
\* and order_option is 'place_order', and to none otherwise (setting not
\* loaded, 'order_via_messenger', unmounted); the realtime callback never runs
\* while order_option is not 'place_order'; a step that unmounts or leaves
\* 'place_order' removes the channel created before.
C3_SubscribedWhilePlaceOrder ==
  /\ [](liveChannels = IF ordersMounted /\ orderOption = "place_order" THEN 1 ELSE 0)
  /\ [][RealtimeEvent => ordersMounted /\ orderOption = "place_order"]_vars
  /\ [][(liveChannels = 1 /\ (~ordersMounted' \/ orderOption' # "place_order"))
          => liveChannels' = 0]_vars

\* C3 witness: a subscribed instance with a pushed payload waiting
C3_Witness ==
  ordersMounted /\ orderOption = "place_order" /\ liveChannels = 1 /\ events # <<>>

\* C4: every row createOrder inserts has status 'pending' whatever status
\* the caller supplied, and every order, in the table and in the list, has
\* one of the four statuses of the enum.
C4_CreatedPendingStatusesValid ==
  /\ [](/\ \A id \in DOMAIN dbOrders : dbOrders[id] \in OrderStatuses
        /\ \A i \in 1..Len(orders) : orders[i].status \in OrderStatuses)
  /\ [][\A id \in DOMAIN dbOrders' \ DOMAIN dbOrders : dbOrders'[id] = "pending"]_vars

\* C4 witness: createOrder was called with another status and its row is
\* in the table
C4_Witness ==
  \E req \in creating : req.asked # "pending" /\ req.data.id \in DOMAIN dbOrders

\* C5: the orders list holds at most the most recent 100 entries (RecentLimit
\* in the model) after any sequence of fetchOrders, createOrder and realtime
\* events.
C5_ListAtMostRecentLimit == Len(orders) <= RecentLimit


\* what the callback did to the list, given the entries of the previous list
\* an INSERT of an unlisted id keeps behind the new order
CallbackEffect(keptAfterInsert) ==
  delivered # NoPayload =>
    LET p == delivered.payload
        prev == delivered.prev
        listed == p.id \in Ids(prev)
        others == {i \in 1..Len(prev) : prev[i].id # p.id}
    IN /\ p.type = "INSERT" =>
            IF listed THEN orders = prev
            ELSE /\ orders # <<>>
                 /\ Head(orders).id = p.id /\ Head(orders).status = p.status
                 /\ Tail(orders) = keptAfterInsert
       /\ p.type = "UPDATE" =>
            IF ~listed THEN orders = prev
            ELSE /\ Len(orders) = Len(prev)
                 /\ \A i \in 1..Len(prev) :
                      /\ orders[i].id = prev[i].id
                      /\ prev[i].id # p.id => orders[i] = prev[i]
                      /\ prev[i].id = p.id => orders[i].status = p.status
       /\ p.type = "DELETE" =>
            /\ Len(orders) = Cardinality(others)
            /\ \A i \in others : orders[Cardinality({j \in others : j <= i})] = prev[i]

\* C17 as stated: right after the realtime callback, an INSERT of a listed id
\* left the list as it was and an INSERT of an unlisted id put the new order
\* in front of the unchanged list; an UPDATE of an unlisted id left the list
\* as it was and otherwise changed only the entries with that id, in place; a
\* DELETE removed exactly the entries with that id and kept the others in order.
C17_EventChangesOnlyNamedRow == CallbackEffect(delivered.prev)

\* C17 amended: as above, except that an INSERT of an unlisted id keeps behind
\* the new order only the first RecentLimit - 1 entries of the previous list.
C17_EventChangesNamedRowWithinLimit ==
  CallbackEffect(Slice(delivered.prev, RecentLimit - 1))

\* C17 witness: the callback ran for an INSERT of an unlisted id on a full
\* list, and the last entry of the previous list is gone
C17_Witness ==
  /\ delivered.payload.type = "INSERT"
  /\ delivered.payload.id \notin Ids(delivered.prev)
  /\ Len(delivered.prev) >= RecentLimit
  /\ Head(orders).id = delivered.payload.id
  /\ delivered.prev[Len(delivered.prev)].id \notin Ids(orders)

(***************************************************************************)
(* Claims about usePaymentMethods and PaymentMethodManager.                *)
(***************************************************************************)

\* C2: right after a successful fetchPaymentMethods (on its own or as the
\* refetch of updateAdminGroup) every method in the list is active and
\* belongs to a group that is on, the list is in ascending sort_order, and it
\* is empty when no group is on; after a group was toggled off the list holds
\* none of that group's methods.
C2_CustomerListFiltered ==
  /\ (payLast.op \in {"fetchPaymentMethods", "updateAdminGroup"} /\ payLast.ok) =>
       /\ \A i \in 1..Len(paymentMethods) :
            /\ paymentMethods[i].active
            /\ paymentMethods[i].admin_name \in DOMAIN dbGroups
            /\ dbGroups[paymentMethods[i].admin_name]
       /\ \A i, j \in 1..Len(paymentMethods) :
            i < j => paymentMethods[i].sort_order <= paymentMethods[j].sort_order
       /\ (\A n \in DOMAIN dbGroups : ~dbGroups[n]) => paymentMethods = <<>>
  /\ (/\ payLast.op = "updateAdminGroup" /\ payLast.ok
      /\ payLast.group \in DOMAIN dbGroups /\ ~dbGroups[payLast.group]) =>
       \A i \in 1..Len(paymentMethods) : paymentMethods[i].admin_name # payLast.group

\* C2 witness: a group that has an active method was toggled off and the
\* refetch produced a list that still shows another group's method
C2_Witness ==
  /\ payLast.op = "updateAdminGroup" /\ payLast.ok
  /\ payLast.group \in DOMAIN dbGroups /\ ~dbGroups[payLast.group]
  /\ \E u \in DOMAIN dbMethods :
       dbMethods[u].active /\ dbMethods[u].admin_name = payLast.group
  /\ paymentMethods # <<>>

\* C9: after confirmDeleteAdminGroup succeeded, every method that belonged
\* to the deleted group still exists and is listed by the admin view under
\* 'Unassigned Payment Methods'.
C9_DeletedGroupMethodsUnassigned ==
  (payLast.op = "confirmDeleteAdminGroup" /\ payLast.ok) =>
    \A u \in payLast.moved :
      /\ u \in DOMAIN dbMethods
      /\ \E i \in 1..Len(Grouped(allPaymentMethods, "Unassigned")) :
           Grouped(allPaymentMethods, "Unassigned")[i].uuid_id = u

\* C10: no step changes the id of a stored payment method, and no step taken
\* inside the edit view (name change, active change, rejected save) changes
\* the id held by the form.
C10_MethodIdFixed ==
  /\ [][\A u \in DOMAIN dbMethods \cap DOMAIN dbMethods' :
          dbMethods'[u].id = dbMethods[u].id]_vars
  /\ [][(currentView = "edit" /\ currentView' = "edit") => formData'.id = formData.id]_vars

\* C10 witness: an edit that changed the name of the first method was saved by
\* updatePaymentMethod and the method still has the id it was created with
C10_Witness ==
  /\ payLast.op = "updatePaymentMethod" /\ payLast.ok /\ payLast.moved = {1}
  /\ dbMethods[1].name # <<"G">>
  /\ dbMethods[1].id = <<"g">>

LoginAccepts(email, password) ==
  \E id \in DOMAIN dbMembers :
    /\ dbMembers[id].email = email
    /\ dbMembers[id].status = "active"
    /\ dbMembers[id].password_hash = hashPassword(password)

\* C7: login succeeds, and stores the member's id as member_id and the member
\* as currentMember, only when a member with that email exists, is active and
\* holds the SHA-256 hex hash of the password; in every other case it returns
\* success = false with an error message and leaves the stored member_id and
\* currentMember as they were.
C7_LoginOnlyWithValidCredentials ==
  memLast.op = "login" =>
    /\ memLast.success =>
         /\ LoginAccepts(memLast.email, memLast.password)
         /\ memLast.member.email = memLast.email
         /\ storedMemberId = memLast.member.id
         /\ currentMember[memLast.inst] = memLast.member
    /\ ~LoginAccepts(memLast.email, memLast.password) => ~memLast.success
    /\ ~memLast.success =>
         /\ memLast.error # NoError
         /\ storedMemberId = memLast.preStored
         /\ currentMember[memLast.inst] = memLast.preCurrent

\* a login has just succeeded in a window where nobody was logged in
C7_Witness ==
  /\ memLast.op = "login" /\ memLast.success
  /\ memLast.preStored = NoMember
  /\ storedMemberId = memLast.member.id
  /\ currentMember[memLast.inst].email = memLast.email

PriorityPrice ==
  LET m == shown.member
      variation == getVariationById(shown.variationId)
  IN IF m # NullMember /\ m.user_type = "reseller" /\ variation.reseller_price # Undefined
     THEN variation.reseller_price
     ELSE IF m # NullMember /\ m.user_type = "end_user" /\ variation.member_price # Undefined
     THEN variation.member_price
     ELSE IF m # NullMember /\ m.user_type = "reseller" /\ shown.cached # Undefined
     THEN shown.cached
     ELSE IF itemDiscount.isOnDiscount /\ itemDiscount.discountPercentage # Undefined
     THEN AfterDiscount(shown.basePrice, itemDiscount.discountPercentage)
     ELSE shown.basePrice

\* C6: getDiscountedPriceSync returns the first applicable of: the variation's
\* reseller_price for a reseller, the variation's member_price for an end
\* user, the cached selling_price of the variation for a reseller, the
\* discounted base price of an item on discount, the base price; with no
\* logged-in member it returns one of the last two.
C6_PriceFollowsPriority ==
  shown # NotShown =>
    /\ shown.price = PriorityPrice
    /\ shown.member = NullMember =>
         \/ shown.price = shown.basePrice
         \/ /\ itemDiscount.isOnDiscount
            /\ itemDiscount.discountPercentage # Undefined
            /\ shown.price = AfterDiscount(shown.basePrice, itemDiscount.discountPercentage)

(***************************************************************************)
(* Claims about Checkout.                                                  *)
(***************************************************************************)

\* C11: in the order_via_messenger flow 'Place Order via Messenger' runs only
\* with a payment method selected, a receipt uploaded, no upload in progress
\* and the message copied; and in every reachable state hasCopiedMessage
\* implies that receiptImageUrl is set.
C11_CopiedImpliesReceipt ==
  /\ checkoutLast.op = "handlePlaceOrder" =>
       /\ paymentMethod # NoSelection /\ receiptImageUrl # NoReceipt
       /\ ~uploadingReceipt /\ hasCopiedMessage
  /\ hasCopiedMessage => receiptImageUrl # NoReceipt

\* C12: handlePlaceOrderDirect calls createOrder only with a payment method
\* selected that is in the loaded list and with a receipt uploaded, and
\* otherwise sets an error message and creates no order; isPlacingOrder is true
\* exactly while the createOrder call is in flight.
C12_PlaceOrderDirectGuarded ==
  /\ checkoutLast.op = "handlePlaceOrderDirect" =>
       IF checkoutLast.ready
       THEN checkoutLast.called /\ checkoutLast.error = NoError
       ELSE ~checkoutLast.called /\ checkoutLast.error # NoError
            /\ receiptError = checkoutLast.error /\ placing = {}
  /\ isPlacingOrder <=> placing # {}
  /\ \A id \in DOMAIN dbOrderRows :
       dbOrderRows[id].payment_method_id # NoSelection
       /\ dbOrderRows[id].receipt_url # NoReceipt

\* the handler has refused a selection that the reloaded list no longer holds,
\* after an earlier call has placed an order and ended
C12_Witness ==
  /\ checkoutLast.op = "handlePlaceOrderDirect" /\ ~checkoutLast.called
  /\ receiptError = "Please select a payment method"
  /\ paymentMethod # NoSelection /\ receiptImageUrl # NoReceipt
  /\ Len(dbOrderRows) = 1 /\ ~isPlacingOrder

\* C13: current_order_id is removed from local storage only if the order it
\* names is approved: while that order is pending, processing or rejected the
\* id stays stored after checkExistingOrder and after the order status modal
\* is closed.
C13_StoredOrderKeptUnlessApproved ==
  /\ checkoutLast.op \in {"checkExistingOrder", "closeOrderModal"}
  /\ checkoutLast.stored \in DOMAIN dbOrderRows
  /\ dbOrderRows[checkoutLast.stored].status \in {"pending", "processing", "rejected"}
  => storedOrderId = checkoutLast.stored

\* C19: an order placed through handlePlaceOrderDirect is stored with member_id
\* equal to the id of the logged-in member, and with member_id null when
\* nobody is logged in.
C19_OrderCarriesMemberId ==
  \A id \in DOMAIN dbOrderRows : dbOrderRows[id].member_id = storedMemberId

\* C18: every member no updateMember call has changed has user_type
\* 'end_user', status 'active' and level 1, the member a successful register
\* returned included, and isReseller() is false in every instance whose
\* currentMember no updateMember call has changed.
C18_RoleOnlyThroughUpdateMember ==
  /\ \A id \in DOMAIN dbMembers \ adminChanged :
       /\ dbMembers[id].user_type = "end_user"
       /\ dbMembers[id].status = "active"
       /\ dbMembers[id].level = 1
  /\ \A i \in Instances :
       isReseller(currentMember[i]) => currentMember[i].id \in adminChanged

\* C18 witness: a member register created is logged in and is no reseller,
\* while the first member, made a reseller by updateMember, is stored as one
C18_Witness ==
  /\ \E id \in DOMAIN dbMembers \ adminChanged :
       id > 1 /\ \E i \in Instances : currentMember[i].id = id /\ ~isReseller(currentMember[i])
  /\ 1 \in adminChanged /\ dbMembers[1].user_type = "reseller"

\* C14: in every instance, a member_id stored by login is eventually the id
\* of currentMember unless the stored id changes again; after logout every
\* instance eventually holds no member and the card eventually renders a
\* price computed without a member, unless somebody logs in again.
C14_InstancesFollowMember ==
  /\ \A j \in Instances, id \in 1..MaxMembers :
       (storedMemberId = id) ~> (currentMember[j].id = id \/ storedMemberId # id)
  /\ \A j \in Instances :
       (storedMemberId = NoMember) ~>
          (currentMember[j] = NullMember \/ storedMemberId # NoMember)
  /\ (storedMemberId = NoMember) ~>
          (shown = NotShown \/ shown.member = NullMember \/ storedMemberId # NoMember)

\* C15: the message generateOrderMessage returned holds, for every game
\* with custom fields and every field of it the customer typed a text into, a
\* fields line with the field's label and the text below a line with the
\* game's name; for a cart without custom fields it holds the line 'IGN: '
\* followed by the default_ign text.
C15_MessageHoldsEnteredFields ==
  message # NotGenerated =>
    IF hasAnyCustomFields
    THEN \A i \in 1..Len(itemsWithCustomFields) :
           \A f \in 1..Len(itemsWithCustomFields[i].customFields) :
             LET item == itemsWithCustomFields[i]
                 field == item.customFields[f]
                 text == ValueAt(customFieldValues,
                                 InputKey(getOriginalMenuItemId(item.id), f - 1, field.key))
                 PiecesOf(l) == {message[l].pieces[k] : k \in 1..Len(message[l].pieces)}
             IN text # "" =>
                  \E g, l \in 1..Len(message) :
                    /\ g < l
                    /\ message[g].kind = "games" /\ message[g].pieces = <<item.name>>
                    /\ \A h \in g..(l - 1) : message[h].kind = "games"
                    /\ message[l].kind = "fields"
                    /\ field.label \in PiecesOf(l) /\ text \in PiecesOf(l)
    ELSE message = <<[kind |-> "ign",
                      pieces |-> <<"IGN: ", ValueAt(customFieldValues, DefaultIgnKey)>>]>>

====
